---- MODULE Spec2Model ----
(***************************************************************************)
(* A model of dfrandom.py: the exact-budget selectors (pick_from_list and  *)
(* pick_from_list_enforcing_prereqs), the prerequisite compiler and        *)
(* evaluator (_parse_*_prereq, _parse_prereq_list, prereq_satisfied), and  *)
(* the functions on a list of traits: pick_or_improve_skills_from_list,    *)
(* add_spell and merge_traits.                                             *)
(*                                                                         *)
(* Python values are modelled as follows.  A str is a TLA+ string, a tuple *)
(* or list a sequence, a set a set.  A list object that is shared between  *)
(* two references (the groups of a pool) is an entry of a heap, and the    *)
(* references are its index.  An exception is a record that names it.      *)
(***************************************************************************)
EXTENDS Integers, Sequences, FiniteSets, TLC

VARIABLES
    \* ---- the selectors ----
    pool,            \* the pool as the caller built it (never assigned)
    called,          \* the function the caller called
    fn,              \* the function of the running frame
    pc,              \* position in the running frame
    points,          \* the target
    original_traits, \* the caller's prior selections
    lst,             \* the frame's list: references to group objects
    heap,            \* the group objects the frame's list refers to
    lst2,            \* the reference to the group drawn last
    original_lst,    \* the frame's deep copy of its list
    traits,          \* the frame's selection
    points_left,     \* the frame's remaining budget
    retried,         \* whether the running frame is a retry
    callerLst,       \* the list object the caller passed in
    callerHeap,      \* the group objects the caller's list refers to
    src,             \* history: the group each entry of traits came from
    drawn,           \* history: the groups drawn in the running pass
    gate,            \* history: the prerequisite of each entry of traits,
                     \*   as evaluated when the entry was accepted
    firstDraws,      \* history: the number of draws of the first pass
    \* ---- the random number generator ----
    tape,            \* the numbers the generator yields in the running pass
    pos,             \* the place in tape of the number it yields next
    \* ---- the prerequisite compiler and its generated functions ----
    prereq_el,       \* the element that is compiled
    sel,             \* the traits the compiled predicate is evaluated on
    function_name_incrementor,
                     \* the global counter of generated function names
    compiled,        \* what the parser returned
    iteration,       \* the order in which the call iterated trait_names
    value,           \* what the call of the compiled predicate returned
    cpc,             \* position of the caller of the compiler
    again,           \* what the parser returned when called a second time
    value2,          \* what the call of the second predicate returned
    \* ---- the functions on a list of traits ----
    skills_lst,      \* pick_or_improve_skills_from_list: list(skills)
    min_cost,        \* pick_or_improve_skills_from_list: min_cost
    skill_name,      \* pick_or_improve_skills_from_list: the name chosen
    traits0,         \* history: the traits as the caller passed them
    trait_name_set,  \* add_spell: the caller's set trait_names
    calls,           \* add_spell: the calls that have returned
    traits2,         \* merge_traits: the list it returns
    exc,             \* the exception that ended the call, or None
    frames           \* the frames of pick_from_list that are on the stack

selVars == <<pool, called, fn, pc, points, original_traits, lst, heap, lst2,
             original_lst, traits, points_left, retried, callerLst,
             callerHeap, src, drawn, gate, firstDraws>>

rngVars == <<tape, pos>>

compVars == <<prereq_el, sel, function_name_incrementor, compiled,
              iteration, value, cpc>>

moreVars == <<again, value2, skills_lst, min_cost, skill_name, traits0,
              trait_name_set, calls, traits2, exc, frames>>

vars == <<selVars, rngVars, compVars, moreVars>>

----------------------------------------------------------------------------
(* Bounds of the model. *)

MaxGroups == 2
MaxTarget == 3

----------------------------------------------------------------------------
(* Python built-ins. *)

Abs(n) == IF n < 0 THEN -n ELSE n

\* list.remove(x): the list without the first element equal to x.
RemoveAt(s, i) == SubSeq(s, 1, i - 1) \o SubSeq(s, i + 1, Len(s))

FirstIndex(s, x) == CHOOSE i \in 1..Len(s) :
                        s[i] = x /\ \A j \in 1..(i - 1) : s[j] # x

ListRemove(s, x) == RemoveAt(s, FirstIndex(s, x))

RECURSIVE SumCost(_)
SumCost(ts) == IF ts = <<>> THEN 0 ELSE ts[1][2] + SumCost(Tail(ts))

----------------------------------------------------------------------------
(* Python str methods and the regular expression of the level leaves. *)

LowerCase == "abcdefghijklmnopqrstuvwxyz"
UpperCase == "ABCDEFGHIJKLMNOPQRSTUVWXYZ"
Digits == "0123456789"

Ch(s, i) == SubSeq(s, i, i)

\* The place of character c in the alphabet s, 0 when it is not in it.
Place(c, s) == IF \E i \in 1..Len(s) : Ch(s, i) = c
               THEN CHOOSE i \in 1..Len(s) : Ch(s, i) = c
               ELSE 0

IsLower(c) == Place(c, LowerCase) # 0
IsUpper(c) == Place(c, UpperCase) # 0
IsDigit(c) == Place(c, Digits) # 0
ToUpper(c) == IF IsLower(c) THEN Ch(UpperCase, Place(c, LowerCase)) ELSE c
ToLower(c) == IF IsUpper(c) THEN Ch(LowerCase, Place(c, UpperCase)) ELSE c

\* str.title(): a cased character is upper case when the character before
\* it is not cased, and lower case when it is.
RECURSIVE TitleFrom(_, _, _)
TitleFrom(s, i, prevCased) ==
    IF i > Len(s) THEN ""
    ELSE LET c == Ch(s, i)
             cased == IsLower(c) \/ IsUpper(c)
             d == IF prevCased THEN ToLower(c) ELSE ToUpper(c)
         IN  d \o TitleFrom(s, i + 1, cased)

Title(s) == TitleFrom(s, 1, FALSE)

\* str.upper()
RECURSIVE StrUpper(_)
StrUpper(s) == IF s = "" THEN "" ELSE ToUpper(Ch(s, 1)) \o StrUpper(Tail(s))

\* s.startswith(p)
StartsWith(s, p) == Len(p) <= Len(s) /\ SubSeq(s, 1, Len(p)) = p

\* p in s
Contains(s, p) ==
    \E i \in 0..(Len(s) - Len(p)) : SubSeq(s, i + 1, i + Len(p)) = p

\* int(s) of a string of digits
RECURSIVE ParseIntFrom(_, _)
ParseIntFrom(s, acc) ==
    IF s = "" THEN acc
    ELSE ParseIntFrom(Tail(s), 10 * acc + (Place(Ch(s, 1), Digits) - 1))

ParseInt(s) == ParseIntFrom(s, 0)

\* re.search("(\d+).*$", s): whether it matches, and int(match.group(1)):
\* the leftmost digit of s starts the match and group 1 is greedy.
HasDigit(s) == \E i \in 1..Len(s) : IsDigit(Ch(s, i))

FirstDigitAt(s) == CHOOSE i \in 1..Len(s) :
    IsDigit(Ch(s, i)) /\ \A j \in 1..(i - 1) : ~IsDigit(Ch(s, j))

RECURSIVE DigitRun(_, _)
DigitRun(s, i) == IF i > Len(s) \/ ~IsDigit(Ch(s, i)) THEN ""
                  ELSE Ch(s, i) \o DigitRun(s, i + 1)

MatchLevel(s) == ParseInt(DigitRun(s, FirstDigitAt(s)))

----------------------------------------------------------------------------
(* xml.etree elements.  An absent attribute, an absent child and a missing *)
(* text are None.                                                           *)

None == "<None>"

\* An element with children and no text of its own.
Node(tag, has, all, kids) ==
    [tag |-> tag, has |-> has, all |-> all, which |-> None,
     compare |-> None, text |-> None, kids |-> kids]

\* A child of a leaf: <tag compare="...">text</tag>.
Cmp(tag, compare, text) ==
    [tag |-> tag, has |-> None, all |-> None, which |-> None,
     compare |-> compare, text |-> text, kids |-> <<>>]

\* <attribute_prereq has=".." which=".." compare="..">text</attribute_prereq>
Attr(has, which, compare, text) ==
    [tag |-> "attribute_prereq", has |-> has, all |-> None, which |-> which,
     compare |-> compare, text |-> text, kids |-> <<>>]

\* The None that el.find returns, as an element, so that it compares with
\* elements.
NoElement == Cmp(None, None, None)

IsNone(el) == el.tag = None

\* el.find(tag): the first child with that tag, or None.
Find(el, tag) ==
    IF \E i \in 1..Len(el.kids) : el.kids[i].tag = tag
    THEN el.kids[CHOOSE i \in 1..Len(el.kids) :
             el.kids[i].tag = tag
             /\ \A j \in 1..(i - 1) : el.kids[j].tag # tag]
    ELSE NoElement

\* child.get("compare") of a child that may be None: the conditions of the
\* source test "x is not None and x.get('compare') == c" in this order.
Is(child, compare) == ~IsNone(child) /\ child.compare = compare

----------------------------------------------------------------------------
(* The generated source text.  A "def f(traits, trait_names): body" block  *)
(* is the record Def(f, code, args): code names the body's template and    *)
(* args are the values substituted into it.  A parser that raises an       *)
(* exception yields Raise(the exception's name) in place of the text.      *)

Def(function_name, code, args) ==
    [stmt |-> "def", name |-> function_name, code |-> code, args |-> args]

Raise(exception) ==
    [stmt |-> "raise", name |-> exception, code |-> None, args |-> <<>>]

Raised(st) == st.stmt = "raise"

AssertionError == Raise("AssertionError")
UnboundLocalError == Raise("UnboundLocalError")

\* The fall-through of a parser compiled to a predicate that is always true.
ParseFallThroughTrue(el, function_name) == Def(function_name, "true", <<>>)

\* "assert False" at the end of a parser
ParseFallThrough(el, function_name) == AssertionError

\* _parse_spell_prereq
ParseSpellPrereq(el, function_name) ==
    LET child == el.kids[1]
        college_el == Find(el, "college")
        quantity_el == Find(el, "quantity")
        name_el == Find(el, "name")
        any_el == Find(el, "any")
        F(code, args) == Def(function_name, code, args)
    IN
    IF Len(el.kids) = 1 /\ child.tag = "name" /\ child.compare = "is"
        THEN F("name_in", <<Title(child.text)>>)
    ELSE IF Len(el.kids) = 1 /\ child.tag = "name"
            /\ child.compare = "contains"
        THEN F("any_title_contains", <<child.text>>)
    ELSE IF Len(el.kids) = 1 /\ child.tag = "name"
            /\ child.compare = "starts with"
        THEN F("any_title_startswith", <<Title(child.text)>>)
    ELSE IF Len(el.kids) = 1 /\ child.tag = "college_count"
            /\ child.compare = "at_least"
        THEN F("college_count_ge", <<ParseInt(child.text)>>)
    ELSE IF Len(el.kids) = 1 /\ child.tag = "college"
            /\ child.compare = "contains"
        THEN F("college_contains", <<Title(child.text)>>)
    ELSE IF Len(el.kids) = 1 /\ child.tag = "college"
            /\ child.compare = "is"
        THEN F("college_ge", <<child.text, 1>>)
    ELSE IF Len(el.kids) = 2 /\ ~IsNone(college_el) /\ ~IsNone(quantity_el)
        THEN IF Is(college_el, "contains") /\ Is(quantity_el, "at_least")
                THEN F("college_ge",
                       <<college_el.text, ParseInt(quantity_el.text)>>)
             ELSE IF Is(college_el, "is") /\ Is(quantity_el, "at_least")
                THEN F("college_ge",
                       <<college_el.text, ParseInt(quantity_el.text)>>)
             ELSE ParseFallThrough(el, function_name)
    ELSE IF Len(el.kids) = 2 /\ ~IsNone(name_el) /\ ~IsNone(quantity_el)
        THEN IF Is(name_el, "starts with") /\ Is(quantity_el, "at_least")
                THEN F("count_starting_with_ge",
                       <<Title(name_el.text), ParseInt(quantity_el.text)>>)
             ELSE IF Is(name_el, "is") /\ Is(quantity_el, "is")
                THEN F("name_in", <<Title(name_el.text)>>)
             ELSE IF Is(name_el, "contains") /\ Is(quantity_el, "at_least")
                THEN F("count_containing_ge",
                       <<Title(name_el.text), ParseInt(quantity_el.text)>>)
             ELSE IF Is(name_el, "is") /\ Is(quantity_el, "at_least")
                THEN F("count_name_eq_ge",
                       <<Title(name_el.text), ParseInt(quantity_el.text)>>)
             ELSE IF Is(name_el, "is anything")
                     /\ Is(quantity_el, "at_least")
                THEN F("count_spells_ge", <<ParseInt(quantity_el.text)>>)
             ELSE ParseFallThrough(el, function_name)
    ELSE IF Len(el.kids) = 2 /\ ~IsNone(any_el) /\ ~IsNone(quantity_el)
        THEN IF Is(quantity_el, "at_least")
                THEN F("count_spells_ge", <<ParseInt(quantity_el.text)>>)
             ELSE ParseFallThrough(el, function_name)
    ELSE ParseFallThrough(el, function_name)

\* _parse_advantage_prereq
ParseAdvantagePrereq(el, function_name) ==
    LET name_el == Find(el, "name")
        level_el == Find(el, "level")
        notes_el == Find(el, "notes")
        F(code, args) == Def(function_name, code, args)
    IN
    IF el.has = "no"
        THEN IF Len(el.kids) # 2
                \* name_el and notes_el are assigned only when len(el) == 2
                THEN UnboundLocalError
             ELSE IF Is(name_el, "starts with") /\ Is(notes_el, "is anything")
                THEN F("none_title_startswith", <<Title(name_el.text)>>)
             ELSE IF Is(name_el, "is") /\ Is(notes_el, "is anything")
                THEN F("none_title_is", <<Title(name_el.text)>>)
             ELSE IF Is(name_el, "contains") /\ Is(notes_el, "is anything")
                THEN F("none_title_contains", <<Title(name_el.text)>>)
             ELSE ParseFallThrough(el, function_name)
    ELSE IF Len(el.kids) = 3
        THEN IF Is(name_el, "is") /\ Is(level_el, "at_least")
                /\ Is(notes_el, "is anything")
                THEN F("level_startswith",
                       <<Title(name_el.text), level_el.text>>)
             ELSE IF Is(name_el, "is") /\ Is(level_el, "at_least")
                /\ Is(notes_el, "contains")
                THEN F("level_startswith_with_note",
                       <<Title(name_el.text), notes_el.text, level_el.text>>)
             ELSE IF Is(name_el, "is") /\ Is(level_el, "at_least")
                /\ Is(notes_el, "does not contain")
                THEN F("level_startswith_without_note",
                       <<Title(name_el.text), notes_el.text, level_el.text>>)
             ELSE IF Is(name_el, "contains") /\ Is(level_el, "at_least")
                /\ Is(notes_el, "is anything")
                THEN F("level_contains",
                       <<Title(name_el.text), level_el.text>>)
             ELSE ParseFallThrough(el, function_name)
    ELSE IF Len(el.kids) = 2
        THEN IF Is(name_el, "is") /\ Is(notes_el, "is anything")
                THEN F("name_in", <<Title(name_el.text)>>)
             ELSE IF Is(name_el, "starts with") /\ Is(notes_el, "contains")
                THEN F("any_title_startswith_with_note",
                       <<Title(name_el.text), notes_el.text>>)
             ELSE IF Is(name_el, "contains") /\ Is(notes_el, "is anything")
                THEN F("any_title_contains", <<Title(name_el.text)>>)
             ELSE ParseFallThrough(el, function_name)
    ELSE ParseFallThrough(el, function_name)

\* _parse_attribute_prereq
ParseAttributePrereq(el, function_name) ==
    IF el.compare = "at_least"
        THEN Def(function_name, "level_startswith_int",
                 <<StrUpper(el.which) \o " ", ParseInt(el.text)>>)
    ELSE ParseFallThrough(el, function_name)

\* _parse_skill_prereq
ParseSkillPrereq(el, function_name) ==
    LET name_el == Find(el, "name")
        level_el == Find(el, "level")
        specialization_el == Find(el, "specialization")
        F(code, args) == Def(function_name, code, args)
    IN
    IF Len(el.kids) = 3
        THEN IF Is(name_el, "is") /\ Is(level_el, "at_least")
                /\ Is(specialization_el, "is anything")
                THEN F("level_startswith",
                       <<Title(name_el.text), level_el.text>>)
             ELSE ParseFallThrough(el, function_name)
    ELSE IF Len(el.kids) = 2
        THEN IF Is(name_el, "is") /\ Is(specialization_el, "is anything")
                THEN F("name_in", <<Title(name_el.text)>>)
             ELSE ParseFallThrough(el, function_name)
    ELSE ParseFallThrough(el, function_name)

----------------------------------------------------------------------------
(* _parse_prereq_list and _parse_no_prereqs.  A blob is the sequence of    *)
(* the statements of the generated text, in the order of the text: Def     *)
(* blocks, and the assignments "top_N = and_(...)".  The parsers read and  *)
(* advance the global function_name_incrementor: they take its value and   *)
(* return [raised, blob, inc]: raised is None, or the name of the          *)
(* exception that ended the parse, and inc is the incrementor afterwards.  *)

\* "top_N = joiner(args)"; an argument is a call "f(traits, trait_names)"
\* or the bare name of a variable.
Assign(top_name, joiner, args) ==
    [stmt |-> "assign", name |-> top_name, joiner |-> joiner, args |-> args]

\* "top_N = True"
AssignTrue(top_name) == [stmt |-> "true", name |-> top_name]

\* the text and_or
and_or == <<Def("and_", "and_", <<>>), Def("or_", "or_", <<>>)>>

\* A function name that does not read the counter
FunctionNameSame(prefix, n) == prefix \o "_0"

\* "top_%d" % n and "ppl_%d" % n
FunctionName(prefix, n) == prefix \o "_" \o ToString(n)

\* Every list joined with or_, whatever its all attribute says.
JoinerAlwaysOr(prereq_list_el) == "or_"

\* and_ if all="yes", or_ otherwise
Joiner(prereq_list_el) ==
    IF prereq_list_el.all = "yes" THEN "and_" ELSE "or_"

\* function_names_with_args
WithArgs(function_names) ==
    [i \in 1..Len(function_names) |->
        [call |-> ~Contains(function_names[i], "top"),
         name |-> function_names[i]]]

\* the dispatch of a child that is not a prereq_list
ParseLeaf(child, function_name) ==
    IF child.tag = "spell_prereq"
        THEN ParseSpellPrereq(child, function_name)
    ELSE IF child.tag = "advantage_prereq"
        THEN ParseAdvantagePrereq(child, function_name)
    ELSE IF child.tag = "attribute_prereq"
        THEN ParseAttributePrereq(child, function_name)
    ELSE IF child.tag = "skill_prereq"
        THEN ParseSkillPrereq(child, function_name)
    ELSE AssertionError

RECURSIVE ParsePrereqList(_, _, _)
RECURSIVE ParseChildren(_, _, _, _, _)

\* The rest of the loop after child i, a prereq_list, has been parsed to r.
AfterList(el, i, sts, function_names, function_name, r) ==
    IF r.raised # None THEN r
    ELSE ParseChildren(el, i + 1, r.inc, sts \o r.blob,
                       Append(function_names, function_name))

\* The rest of the loop after child i, a leaf, has been parsed to st.
AfterLeaf(el, i, inc, sts, function_names, function_name, st) ==
    IF Raised(st)
    THEN [raised |-> st.name, blob |-> <<>>, names |-> <<>>, inc |-> inc]
    ELSE ParseChildren(el, i + 1, inc, Append(sts, st),
                       Append(function_names, function_name))

\* The loop "for child in prereq_list_el" from child i on, with the
\* statements and the function names gathered so far.
ParseChildren(el, i, inc, sts, function_names) ==
    IF i > Len(el.kids)
    THEN [raised |-> None, blob |-> sts, names |-> function_names,
          inc |-> inc]
    ELSE IF el.kids[i].tag = "prereq_list"
    THEN AfterList(el, i, sts, function_names, FunctionName("top", inc),
                   ParsePrereqList(el.kids[i], FunctionName("top", inc),
                                   inc + 1))
    ELSE AfterLeaf(el, i, inc + 1, sts, function_names,
                   FunctionName("ppl", inc),
                   ParseLeaf(el.kids[i], FunctionName("ppl", inc)))

\* The call line appended to the statements of the children.
WithCallLine(prereq_list_el, top_name, r) ==
    IF r.raised # None THEN r
    ELSE [raised |-> None,
          blob |-> Append(r.blob, Assign(top_name, Joiner(prereq_list_el),
                                         WithArgs(r.names))),
          names |-> <<>>,
          inc |-> r.inc]

\* _parse_prereq_list
ParsePrereqList(prereq_list_el, top_name, inc) ==
    WithCallLine(prereq_list_el, top_name,
                 ParseChildren(prereq_list_el, 1, inc, and_or, <<>>))

\* _parse_no_prereqs
ParseNoPrereqs(top_name, inc) ==
    [raised |-> None,
     blob |-> <<Def(FunctionName("pnp", inc), "true", <<>>),
                AssignTrue(top_name)>>,
     names |-> <<>>,
     inc |-> inc + 1]

----------------------------------------------------------------------------
(* build_spell_prereqs.  The library file is not part of the sources: a    *)
(* library is a sequence of <spell> elements, each with its name, its      *)
(* categories and its prereq_list (NoElement when it has none).            *)

Spell(name, categories, prereq_list) ==
    [name |-> name, categories |-> categories, prereq_list |-> prereq_list]

\* <prereq_list all="..."> children </prereq_list>
List(all, kids) == Node("prereq_list", None, all, kids)

\* <spell_prereq has="yes"><name compare="is">text</name></spell_prereq>
NameIs(text) == Node("spell_prereq", "yes", None, <<Cmp("name", "is", text)>>)

\* The spells of the model's library, with the colleges and prerequisites
\* the game gives them.
Library ==
    << Spell("Light", {"Light and Darkness"}, NoElement),
       Spell("Continual Light", {"Light and Darkness"},
             List("yes", <<NameIs("light")>>)),
       Spell("Seek Earth", {"Earth"}, NoElement),
       Spell("Earth to Stone", {"Earth"},
             List("yes", <<NameIs("seek earth")>>)),
       Spell("Aura", {"Knowledge"}, NoElement),
       Spell("Juggling", {"Esoteric"}, NoElement) >>

\* The names of allowed_spells that the library holds.
allowed_spells ==
    {"Light", "Continual Light", "Seek Earth", "Earth to Stone", "Aura"}

\* An empty dict
EmptyDict == [n \in {} |-> {}]

\* The loop of build_spell_prereqs over the spells from i on, as far as it
\* fills in spell_to_colleges.
RECURSIVE CollegesFrom(_, _, _)
CollegesFrom(library, i, colleges) ==
    IF i > Len(library) THEN colleges
    ELSE IF library[i].name \notin allowed_spells
    THEN CollegesFrom(library, i + 1, colleges)
    ELSE CollegesFrom(library, i + 1,
                      (library[i].name :> library[i].categories) @@ colleges)

RECURSIVE BuildFrom(_, _, _, _)

\* The rest of the loop after the prerequisites of spell i were parsed to r.
AfterSpell(library, i, prereqs, r) ==
    IF r.raised # None
    THEN [raised |-> r.raised, prereqs |-> prereqs, inc |-> r.inc]
    ELSE BuildFrom(library, i + 1, (library[i].name :> r.blob) @@ prereqs,
                   r.inc)

\* The loop of build_spell_prereqs over the spells from i on, as far as it
\* fills in spell_to_prereq_function: [raised, prereqs, inc].
BuildFrom(library, i, prereqs, inc) ==
    IF i > Len(library)
    THEN [raised |-> None, prereqs |-> prereqs, inc |-> inc]
    ELSE IF library[i].name \notin allowed_spells
    THEN BuildFrom(library, i + 1, prereqs, inc)
    ELSE AfterSpell(library, i, prereqs,
             IF IsNone(library[i].prereq_list)
             THEN ParseNoPrereqs(FunctionName("top", inc), inc + 1)
             ELSE ParsePrereqList(library[i].prereq_list,
                                  FunctionName("top", inc), inc + 1))

\* build_spell_prereqs(), from function_name_incrementor = 0
BuildSpellPrereqs == BuildFrom(Library, 1, EmptyDict, 0)

----------------------------------------------------------------------------
(* The global dicts that build_spell_prereqs fills in.                      *)

spell_to_colleges == CollegesFrom(Library, 1, EmptyDict)

\* spell_to_prereq_function as build_spell_prereqs leaves it
BuiltPrereqs == BuildSpellPrereqs.prereqs

IsSpell(name) == name \in DOMAIN spell_to_colleges

\* spell_to_colleges.get(name, [])
CollegesOf(name) == IF IsSpell(name) THEN spell_to_colleges[name] ELSE {}

Names(ts) == {ts[i][1] : i \in 1..Len(ts)}

\* count_spell_colleges
count_spell_colleges(ts) ==
    Cardinality(UNION {CollegesOf(ts[i][1]) : i \in 1..Len(ts)})

\* count_spells_from_each_college(traits)[college]; a Counter counts 0 for
\* a key it does not hold
CollegeCounter(ts, college) ==
    Cardinality({i \in 1..Len(ts) : college \in CollegesOf(ts[i][1])})

CountedColleges(ts) ==
    UNION {CollegesOf(ts[i][1]) : i \in 1..Len(ts)}

\* count_spells_starting_with
count_spells_starting_with(ts, st) ==
    Cardinality({i \in 1..Len(ts) :
        StartsWith(Title(ts[i][1]), Title(st))
        /\ IsSpell(Title(ts[i][1]))})

\* count_spells_containing
count_spells_containing(ts, st) ==
    Cardinality({i \in 1..Len(ts) :
        Contains(Title(ts[i][1]), Title(st))
        /\ IsSpell(Title(ts[i][1]))})

\* count_spells
count_spells(ts) ==
    Cardinality({i \in 1..Len(ts) : IsSpell(Title(ts[i][1]))})

----------------------------------------------------------------------------
(* The bodies of the generated functions.  order is the order in which the *)
(* interpreter iterates the set trait_names: a sequence holding each name  *)
(* once.                                                                    *)

\* for trait in trait_names: if <trait is one of matching>:
\*     match = re.search(...)
\*     if match: return int(match.group(1)) >= threshold
\* return False
LevelLoop(order, matching, threshold) ==
    LET hits == {i \in 1..Len(order) :
                    order[i] \in matching /\ HasDigit(order[i])}
        first == CHOOSE i \in hits : \A j \in hits : i <= j
    IN  IF hits = {} THEN FALSE ELSE MatchLevel(order[first]) >= threshold

\* A membership test that a selected name passes by starting with the name.
NameInPrefix(name, trait_names) ==
    \E t \in trait_names : StartsWith(t, name)

\* '''%s''' in trait_names
NameIn(name, trait_names) == name \in trait_names

Call(d, ts, trait_names, order) ==
    LET a == d.args IN
    CASE d.code = "true" -> TRUE
      [] d.code = "name_in" -> NameIn(a[1], trait_names)
      [] d.code = "any_title_contains" ->
            \E t \in trait_names : Contains(Title(t), Title(a[1]))
      [] d.code = "any_title_startswith" ->
            \E t \in trait_names : StartsWith(Title(t), a[1])
      [] d.code = "college_count_ge" -> count_spell_colleges(ts) >= a[1]
      [] d.code = "college_contains" ->
            \E c \in CountedColleges(ts) :
                Contains(Title(c), a[1]) /\ CollegeCounter(ts, c) >= 1
      [] d.code = "college_ge" -> CollegeCounter(ts, a[1]) >= a[2]
      [] d.code = "count_starting_with_ge" ->
            count_spells_starting_with(ts, a[1]) >= a[2]
      [] d.code = "count_containing_ge" ->
            count_spells_containing(ts, a[1]) >= a[2]
      [] d.code = "count_name_eq_ge" ->
            Cardinality({t \in trait_names : t = a[1]}) >= a[2]
      [] d.code = "count_spells_ge" -> count_spells(ts) >= a[1]
      [] d.code = "none_title_startswith" ->
            ~ \E t \in trait_names : StartsWith(Title(t), Title(a[1]))
      [] d.code = "none_title_is" ->
            ~ \E t \in trait_names : Title(t) = Title(a[1])
      [] d.code = "none_title_contains" ->
            ~ \E t \in trait_names : Contains(Title(t), Title(a[1]))
      [] d.code = "level_startswith" ->
            LevelLoop(order, {t \in trait_names : StartsWith(t, a[1])},
                      ParseInt(a[2]))
      [] d.code = "level_startswith_int" ->
            LevelLoop(order, {t \in trait_names : StartsWith(t, a[1])}, a[2])
      [] d.code = "level_startswith_with_note" ->
            LevelLoop(order,
                      {t \in trait_names :
                          StartsWith(t, a[1]) /\ Contains(t, a[2])},
                      ParseInt(a[3]))
      [] d.code = "level_startswith_without_note" ->
            LevelLoop(order,
                      {t \in trait_names :
                          StartsWith(t, a[1]) /\ ~Contains(t, a[2])},
                      ParseInt(a[3]))
      [] d.code = "level_contains" ->
            LevelLoop(order, {t \in trait_names : Contains(t, a[1])},
                      ParseInt(a[2]))
      [] d.code = "any_title_startswith_with_note" ->
            \E t \in trait_names :
                StartsWith(Title(t), Title(a[1])) /\ Contains(Title(t), a[2])

----------------------------------------------------------------------------
(* exec(blob, nsg, nsl) and prereq_satisfied.                              *)

\* and_(*args) and or_(*args), by the body code of the joiner
Join(code, args) ==
    IF code = "and_" THEN \A k \in 1..Len(args) : args[k]
    ELSE \E k \in 1..Len(args) : args[k]

\* The value of an argument of a call line in namespace nsl
ArgValue(a, nsl, ts, trait_names, order) ==
    IF a.call THEN Call(nsl[a.name], ts, trait_names, order) ELSE nsl[a.name]

\* The value a statement binds its name to
Bound(st, nsl, ts, trait_names, order) ==
    IF st.stmt = "def" THEN st
    ELSE IF st.stmt = "true" THEN TRUE
    ELSE Join(nsl[st.joiner].code,
              [k \in 1..Len(st.args) |->
                  ArgValue(st.args[k], nsl, ts, trait_names, order)])

\* The namespace after the statements of blob from i on, from namespace
\* nsl: a def binds its name to the function, an assignment its name to
\* the value of its right-hand side.
RECURSIVE Exec(_, _, _, _, _, _)
Exec(blob, i, nsl, ts, trait_names, order) ==
    IF i > Len(blob) THEN nsl
    ELSE Exec(blob, i + 1,
              (blob[i].name :> Bound(blob[i], nsl, ts, trait_names, order))
                  @@ nsl,
              ts, trait_names, order)

\* No namespace binding at all.
NoBindings == [n \in {} |-> FALSE]

\* prereq_satisfied(spell, traits), with table the dict
\* spell_to_prereq_function and order the iteration order of trait_names
PrereqSatisfied(table, spell, ts, order) ==
    IF spell \notin DOMAIN table THEN TRUE
    ELSE LET blob == table[spell]
             top_name == blob[Len(blob)].name
         IN  Exec(blob, 1, NoBindings, ts, Names(ts), order)[top_name]

\* The orders in which a set can be iterated.
RECURSIVE Orders(_)
Orders(S) == IF S = {} THEN {<<>>}
             ELSE UNION {{<<x>> \o p : p \in Orders(S \ {x})} : x \in S}

----------------------------------------------------------------------------
(* pick_from_list and pick_from_list_enforcing_prereqs.                    *)
(*                                                                         *)
(* A trait is the tuple <<name, cost, trait_type>>.  The frame's list lst  *)
(* is a sequence of references to group objects and heap[r] is the list    *)
(* that reference r refers to, so that a group that is removed from lst by *)
(* equality while another reference to an equal group is kept is told from *)
(* it.  A retry is a call of pick_from_list: a new frame, whose list is    *)
(* the deep copy of the frame before it.  The interpreter's stack is taken *)
(* to be deep enough for every retry.                                      *)

\* The groups a caller builds its pools from (those of the templates pair
\* equal names, equal groups and costs of either sign in one pool).
GroupChoices ==
    { << <<"Light", 1, "SP">>, <<"Aura", 2, "SP">> >>,
      << <<"Continual Light", 1, "SP">> >>,
      << <<"Light", 1, "SP">> >>,
      << <<"Debt", -2, "DI">>, <<"Quirk", 0, "FE">> >>,
      << <<"Vow", -1, "DI">> >>,
      << <<"Bulk", 3, "AD">> >> }

Pools == UNION {[1..n -> GroupChoices] : n \in 0..MaxGroups}

Targets == (-MaxTarget)..MaxTarget

\* What the caller of pick_from_list_enforcing_prereqs has chosen before.
PriorSelections == {<<>>, << <<"Light", 1, "SP">> >>}

Functions == {"pick_from_list", "pick_from_list_enforcing_prereqs"}

\* copy.deepcopy(lst): the lists the references of l refer to, as new
\* objects 1..Len(l)
DeepCopy(l, h) == [i \in 1..Len(l) |-> h[l[i]]]

\* References 1..n, in order
Refs(n) == [i \in 1..n |-> i]

\* lst.remove(lst2), by equality of what the references refer to
RemoveAllEqual(l, h, r) == SelectSeq(l, LAMBDA x : h[x] # h[r])

RemoveEqual(l, h, r) ==
    RemoveAt(l, CHOOSE i \in 1..Len(l) :
                    h[l[i]] = h[r] /\ \A j \in 1..(i - 1) : h[l[j]] # h[r])

\* An acceptance test that every cost passes
FitsAlways(cost) == TRUE

\* An acceptance test that a cost passes when it is one too much
FitsOneMore(cost) == Abs(cost) <= Abs(points_left) + 1

\* abs(cost) <= abs(points_left)
Fits(cost) == Abs(cost) <= Abs(points_left)

\* The budget after a trait was paid for by the size of its cost.
SpendAbs(left, cost) == left - Abs(cost)

\* points_left -= cost
Spend(left, cost) == left - cost

\* The acceptance test of the running frame
Acceptable(tup, order) ==
    /\ Fits(tup[2])
    /\ fn = "pick_from_list_enforcing_prereqs" =>
           PrereqSatisfied(BuiltPrereqs, tup[1], original_traits \o traits,
                           order)

\* The caller's list object and its groups are the frame's in the first
\* frame, and out of the frame's reach afterwards.
CallerSees(l, h) ==
    /\ callerLst' = IF retried THEN callerLst ELSE l
    /\ callerHeap' = IF retried THEN callerHeap ELSE h

\* The state at the call of a selector on pool p with target t
Called(f, p, t, prior) ==
    /\ pool = p
    /\ called = f
    /\ fn = f
    /\ points = t
    /\ original_traits = prior
    /\ lst = Refs(Len(p))
    /\ heap = p
    /\ lst2 = 0
    /\ original_lst = DeepCopy(lst, heap)
    /\ traits = <<>>
    /\ points_left = t
    /\ pc = "while"
    /\ retried = FALSE
    /\ callerLst = lst
    /\ callerHeap = heap
    /\ src = <<>>
    /\ drawn = <<>>
    /\ gate = <<>>
    /\ firstDraws = 0

\* No selector is called.
NoCall == Called("none", <<>>, 0, <<>>)

\* A loop that goes on as long as the list is not empty
WhileList == lst # <<>>

\* "while lst and points_left != 0"
WhileCondition == lst # <<>> /\ points_left # 0

\* "lst2 = random.choice(lst); lst.remove(lst2)" with lst[i] chosen; the
\* inner loop ends at once when lst2 is empty.
DrawAt(i) ==
    /\ pc = "while"
    /\ WhileCondition
    /\ i \in 1..Len(lst)
    /\ lst2' = lst[i]
    /\ lst' = RemoveEqual(lst, heap, lst[i])
    /\ pc' = IF heap[lst[i]] = <<>> THEN "while" ELSE "while2"
    /\ drawn' = Append(drawn, lst[i])
    /\ firstDraws' = IF retried THEN firstDraws ELSE firstDraws + 1
    /\ CallerSees(lst', heap)
    /\ UNCHANGED <<pool, called, fn, points, original_traits, heap,
                   original_lst, traits, points_left, retried, src, gate>>

\* "tup = random.choice(lst2)" with lst2[k] chosen, and the branch taken:
\* the trait is appended and the inner loop left, or the trait is removed
\* from lst2.  order is the order in which the gate iterates trait_names.
ChooseAt(k, order) ==
    /\ pc = "while2"
    /\ k \in 1..Len(heap[lst2])
    /\ IF Acceptable(heap[lst2][k], order)
       THEN /\ traits' = Append(traits, heap[lst2][k])
            /\ points_left' = Spend(points_left, heap[lst2][k][2])
            /\ pc' = "while"
            /\ src' = Append(src, lst2)
            /\ gate' = Append(gate,
                   PrereqSatisfied(BuiltPrereqs, heap[lst2][k][1],
                                   original_traits \o traits, order))
            /\ UNCHANGED <<heap, callerLst, callerHeap>>
       ELSE /\ heap' = [heap EXCEPT ![lst2] = ListRemove(@, heap[lst2][k])]
            /\ pc' = IF heap'[lst2] = <<>> THEN "while" ELSE "while2"
            /\ CallerSees(lst, heap')
            /\ UNCHANGED <<traits, points_left, src, gate>>
    /\ UNCHANGED <<pool, called, fn, points, original_traits, lst, lst2,
                   original_lst, retried, drawn, firstDraws>>

\* "return pick_from_list(original_lst, points)" in both functions
RetryFunction == "pick_from_list"

\* A retry that goes on with the list as the pass has left it
RetryListLeftOver == [l |-> lst, h |-> heap]

\* The list a retry starts from: original_lst
RetryList == [l |-> Refs(Len(original_lst)), h |-> original_lst]

\* The loop has ended with points_left != 0: the frame calls
\* pick_from_list(original_lst, points), which starts as a call does.
RetryCall ==
    /\ pc = "while"
    /\ ~WhileCondition
    /\ points_left # 0
    /\ fn' = RetryFunction
    /\ lst' = RetryList.l
    /\ heap' = RetryList.h
    /\ original_lst' = DeepCopy(lst', heap')
    /\ traits' = <<>>
    /\ points_left' = points
    /\ lst2' = 0
    /\ retried' = TRUE
    /\ src' = <<>>
    /\ drawn' = <<>>
    /\ gate' = <<>>
    /\ UNCHANGED <<pool, called, pc, points, original_traits, callerLst,
                   callerHeap, firstDraws>>

\* The loop has ended with points_left == 0: "return traits", through
\* every frame.
Return ==
    /\ pc = "while"
    /\ ~WhileCondition
    /\ points_left = 0
    /\ pc' = "return"
    /\ UNCHANGED <<pool, called, fn, points, original_traits, lst, heap,
                   lst2, original_lst, traits, points_left, retried,
                   callerLst, callerHeap, src, drawn, gate, firstDraws>>
    /\ UNCHANGED <<rngVars, compVars, moreVars>>

----------------------------------------------------------------------------
(* The callers of the compiler: a call of a leaf parser and of the          *)
(* function it generates, and a call of _parse_prereq_list and of           *)
(* prereq_satisfied on the text it returns.                                 *)

\* Nothing is compiled yet.
NotCompiled == [stmt |-> "none", name |-> None, code |-> None, args |-> <<>>]

\* The state before the compiler is called on element e, with the traits
\* ts chosen and the global counter at n
ToCompile(e, ts, n) ==
    /\ prereq_el = e
    /\ sel = ts
    /\ function_name_incrementor = n
    /\ compiled = NotCompiled
    /\ iteration = <<>>
    /\ value = FALSE
    /\ cpc = "parse"

\* The compiler is not called.
NoCompile == ToCompile(NoElement, <<>>, 0)

\* st = _parse_<tag>_prereq(prereq_el, "f")
ParseLeafCall ==
    /\ cpc = "parse"
    /\ prereq_el.tag # "prereq_list"
    /\ compiled' = ParseLeaf(prereq_el, "f")
    /\ cpc' = IF Raised(compiled') THEN "raised" ELSE "parsed"
    /\ UNCHANGED <<prereq_el, sel, function_name_incrementor, iteration,
                   value>>
    /\ UNCHANGED <<selVars, rngVars, moreVars>>

\* exec(st); f(traits, trait_names)
CallLeaf ==
    /\ cpc = "parsed"
    /\ prereq_el.tag # "prereq_list"
    /\ \E order \in Orders(Names(sel)) :
        /\ value' = Call(compiled, sel, Names(sel), order)
        /\ iteration' = order
    /\ cpc' = "done"
    /\ UNCHANGED <<prereq_el, sel, function_name_incrementor, compiled>>
    /\ UNCHANGED <<selVars, rngVars, moreVars>>

\* _parse_prereq_list has returned or raised r.
ListParsed(r) ==
    /\ compiled' = r
    /\ function_name_incrementor' = r.inc
    /\ cpc' = IF r.raised # None THEN "raised" ELSE "parsed"

\* blob = _parse_prereq_list(prereq_el, "top_x")
ParseListCall ==
    /\ cpc = "parse"
    /\ prereq_el.tag = "prereq_list"
    /\ ListParsed(ParsePrereqList(prereq_el, "top_x",
                                  function_name_incrementor))
    /\ UNCHANGED <<prereq_el, sel, iteration, value>>
    /\ UNCHANGED <<selVars, rngVars, moreVars>>

\* spell_to_prereq_function[spell] = blob; prereq_satisfied(spell, traits)
SatisfiedCall ==
    /\ cpc = "parsed"
    /\ prereq_el.tag = "prereq_list"
    /\ \E order \in Orders(Names(sel)) :
        /\ value' = PrereqSatisfied("spell" :> compiled.blob, "spell", sel,
                                    order)
        /\ iteration' = order
    /\ cpc' = "done"
    /\ UNCHANGED <<prereq_el, sel, function_name_incrementor, compiled>>
    /\ UNCHANGED <<selVars, rngVars, moreVars>>

----------------------------------------------------------------------------
(* The specification of the selectors, every random choice left open.       *)

\* The generator is not modelled.
NoTape == tape = <<>> /\ pos = 0

\* No function on a list of traits is called, and no second compilation.
NoMore ==
    /\ again = NotCompiled
    /\ value2 = FALSE
    /\ skills_lst = <<>>
    /\ min_cost = 0
    /\ skill_name = None
    /\ traits0 = <<>>
    /\ trait_name_set = {}
    /\ calls = 0
    /\ traits2 = <<>>
    /\ exc = None
    /\ frames = 0

SelInit ==
    /\ \E f \in Functions, p \in Pools, t \in Targets :
       \E prior \in IF f = "pick_from_list" THEN {<<>>} ELSE PriorSelections :
           Called(f, p, t, prior)
    /\ NoTape
    /\ NoCompile
    /\ NoMore

Draw ==
    /\ \E i \in 1..Len(lst) : DrawAt(i)
    /\ UNCHANGED <<rngVars, compVars, moreVars>>

Choose ==
    /\ pc = "while2"
    /\ \E k \in 1..Len(heap[lst2]) :
       \E order \in Orders(Names(original_traits \o traits)) :
           ChooseAt(k, order)
    /\ UNCHANGED <<rngVars, compVars, moreVars>>

Retry == RetryCall /\ UNCHANGED <<rngVars, compVars, moreVars>>

Next == Draw \/ Choose \/ Retry \/ Return

Spec == SelInit /\ [][Next]_vars

----------------------------------------------------------------------------
(* The specification of pick_from_list under fair random choice.  The       *)
(* numbers the generator yields during a pass are its tape; a              *)
(* random.choice(seq) on a seq of two elements or more reads the next      *)
(* number of the tape and returns the element of seq at that number modulo *)
(* len(seq), and on a seq of one element it returns the element.  The      *)
(* generator is fair: a tape that can start a pass again and again does    *)
(* start one.                                                               *)

\* The most entries a group holds
MaxEntries ==
    CHOOSE n \in {Len(g) : g \in GroupChoices} :
        \A g \in GroupChoices : Len(g) <= n

\* The most calls of random.choice on two elements or more in one pass:
\* every draw but the last, and for every draw the choices in the group
\* but the last
TapeLen == (MaxGroups - 1) + MaxGroups * (MaxEntries - 1)

RECURSIVE Factorial(_)
Factorial(n) == IF n <= 1 THEN 1 ELSE n * Factorial(n - 1)

\* The numbers of a tape: enough of them for every index of a list of a
\* pass to be the value of one of them modulo the length of the list
TapeNumbers ==
    0..(Factorial(IF MaxGroups > MaxEntries THEN MaxGroups
                  ELSE MaxEntries) - 1)

Tapes == [1..TapeLen -> TapeNumbers]

\* The index random.choice picks in a sequence of length n
Random(n) == IF n = 1 THEN 1 ELSE (tape[pos] % n) + 1

\* The place in the tape after a random.choice in a sequence of length n
Read(n) == IF n = 1 THEN pos ELSE pos + 1

FairInit ==
    /\ \E p \in Pools, t \in Targets : Called("pick_from_list", p, t, <<>>)
    /\ tape \in Tapes
    /\ pos = 1
    /\ NoCompile
    /\ NoMore

TapedDraw ==
    /\ pc = "while"
    /\ lst # <<>>
    /\ DrawAt(Random(Len(lst)))
    /\ pos' = Read(Len(lst))
    /\ UNCHANGED <<tape, compVars, moreVars>>

TapedChoose ==
    /\ pc = "while2"
    /\ \E order \in Orders(Names(original_traits \o traits)) :
           ChooseAt(Random(Len(heap[lst2])), order)
    /\ pos' = Read(Len(heap[lst2]))
    /\ UNCHANGED <<tape, compVars, moreVars>>

\* The retry, with t the numbers the generator yields in the new pass
RetryWith(t) ==
    /\ RetryCall
    /\ tape' = t
    /\ pos' = 1
    /\ UNCHANGED <<compVars, moreVars>>

TapedRetry == \E t \in Tapes : RetryWith(t)

FairNext == TapedDraw \/ TapedChoose \/ TapedRetry \/ Return

\* The interpreter takes the step it can take, and the generator is fair.
Fairness ==
    /\ WF_vars(TapedDraw)
    /\ WF_vars(TapedChoose)
    /\ WF_vars(Return)
    /\ \A t \in Tapes : SF_vars(RetryWith(t))

FairSpec == FairInit /\ [][FairNext]_vars /\ Fairness

----------------------------------------------------------------------------
(* The specification of the leaf parsers: every leaf of a bounded set is    *)
(* compiled, and the function it compiles to is called on every selection  *)
(* of a bounded set, in every order of iteration of trait_names.            *)

MaxSelected == 2

\* The compare modes of the library
Compares == {"is", "contains", "starts with", "at_least", "is anything",
             "does not contain"}

\* The texts of the children of the leaves, by tag
TextsOf(tag) ==
    CASE tag = "name" -> {"light", "earth to stone", "magery"}
      [] tag = "college" -> {"earth"}
      [] tag = "notes" -> {"gate"}
      [] OTHER -> {"2"}

Kids(tag) == {Cmp(tag, c, x) : c \in Compares, x \in TextsOf(tag)}

LevelKids == {Cmp("level", c, "2") : c \in {"at_least", "is"}}

SpellLeaves ==
    {Node("spell_prereq", has, None, ks) :
        has \in {"yes", "no"},
        ks \in {<<a>> : a \in Kids("name") \cup Kids("college")
                              \cup Kids("college_count")}
               \cup {<<a, q>> : a \in Kids("name") \cup Kids("college")
                                      \cup Kids("any"),
                                q \in Kids("quantity")}}

AdvantageLeaves ==
    {Node("advantage_prereq", has, None, ks) :
        has \in {"yes", "no"},
        ks \in {<<n>> : n \in Kids("name")}
               \cup {<<n, t>> : n \in Kids("name"), t \in Kids("notes")}
               \cup {<<n, l, t>> : n \in Kids("name"), l \in LevelKids,
                                   t \in Kids("notes")}}

AttributeLeaves ==
    {Attr(has, "iq", c, "12") : has \in {"yes", "no"}, c \in Compares}

SkillLeaves ==
    {Node("skill_prereq", "yes", None, ks) :
        ks \in {<<n>> : n \in Kids("name")}
               \cup {<<n, t>> : n \in Kids("name"),
                                t \in Kids("specialization")}
               \cup {<<n, l, t>> : n \in Kids("name"), l \in LevelKids,
                                   t \in Kids("specialization")}}

\* A leaf of a tag that _parse_prereq_list does not know
OtherLeaves == {Node("contained_weight_prereq", "yes", None, <<>>)}

Leaves == SpellLeaves \cup AdvantageLeaves \cup AttributeLeaves
          \cup SkillLeaves \cup OtherLeaves

\* The names a selection is made of
TraitNames == <<"Light", "Earth to Stone", "Magery 1", "Magery 3 (gate)",
                "IQ 13">>

\* The traits of the names of ns at the places of m, in the order of ns
TraitsAt(ns, m) ==
    LET at == SelectSeq([i \in 1..Len(ns) |-> i], LAMBDA i : i \in m)
    IN  [k \in 1..Len(at) |-> <<ns[at[k]], 1, "SP">>]

Selections ==
    {TraitsAt(TraitNames, m) :
        m \in {x \in SUBSET (1..Len(TraitNames)) :
                   Cardinality(x) <= MaxSelected}}

LeafInit ==
    /\ \E e \in Leaves, ts \in Selections : ToCompile(e, ts, 0)
    /\ NoCall
    /\ NoTape
    /\ NoMore

LeafNext == ParseLeafCall \/ CallLeaf

SpecLeaf == LeafInit /\ [][LeafNext]_vars

----------------------------------------------------------------------------
(* The specification of _parse_prereq_list and prereq_satisfied: every tree *)
(* of a bounded set is compiled, and the text exec'd on every selection of  *)
(* a bounded set.                                                           *)

MaxDepth == 3

\* <spell_prereq has="yes"><name compare="is">Magery</name></spell_prereq>
NameIsMagery == NameIs("Magery")

\* <advantage_prereq has="yes"><name compare="is">Magery</name>
\* <level compare="at_least">2</level><notes compare="is anything"/>
\* </advantage_prereq>
MageryAtLeast2 ==
    Node("advantage_prereq", "yes", None,
         <<Cmp("name", "is", "Magery"), Cmp("level", "at_least", "2"),
           Cmp("notes", "is anything", None)>>)

TreeLeaves == {NameIsMagery, MageryAtLeast2}

Alls == {"yes", "no"}

\* The lists of no leaf, of one leaf and of two leaves
ListsOfLeaves ==
    {List(a, ks) :
        a \in Alls,
        ks \in {<<>>} \cup {<<l>> : l \in TreeLeaves}
               \cup {<<l, m>> : l \in TreeLeaves, m \in TreeLeaves}}

\* The lists of one list of T, alone, after a leaf or before a leaf
Nest(T) ==
    {List(a, ks) :
        a \in Alls,
        ks \in {<<t>> : t \in T}
               \cup {<<NameIsMagery, t>> : t \in T}
               \cup {<<t, MageryAtLeast2>> : t \in T}}

\* The trees whose lists nest d deep
RECURSIVE TreesOf(_)
TreesOf(d) == IF d <= 1 THEN ListsOfLeaves ELSE Nest(TreesOf(d - 1))

Trees == UNION {TreesOf(d) : d \in 1..MaxDepth}

MageryNames == <<"Magery", "Magery 1", "Magery 3">>

\* The selections of no name, of one name and of two names
MagerySelections ==
    {TraitsAt(MageryNames, m) :
        m \in {{}} \cup {{i} : i \in 1..Len(MageryNames)}
               \cup {{i, j} : i, j \in 1..Len(MageryNames)}}

ListInit ==
    /\ \E e \in Trees, ts \in MagerySelections : ToCompile(e, ts, 0)
    /\ NoCall
    /\ NoTape
    /\ NoMore

ListNext == ParseListCall \/ SatisfiedCall

SpecList == ListInit /\ [][ListNext]_vars

----------------------------------------------------------------------------
(* The specification of two compilations of one tree: the tree is compiled *)
(* under the name "top_x", compiled again under the same name, and both    *)
(* texts are evaluated on a selection.                                     *)

\* The variables of the functions on a list of traits
listVars == <<skills_lst, min_cost, skill_name, traits0, trait_name_set,
              calls, traits2, exc, frames>>

\* The trees compiled twice: lists of leaves, lists of one such list, and
\* the absent prereq_list of a spell with no prerequisites
TwiceTrees == ListsOfLeaves \cup Nest(ListsOfLeaves) \cup {NoElement}

\* build_spell_prereqs: _parse_no_prereqs for an absent prereq_list,
\* _parse_prereq_list otherwise
ParseTop(prereq_list_el, top_name, inc) ==
    IF IsNone(prereq_list_el) THEN ParseNoPrereqs(top_name, inc)
    ELSE ParsePrereqList(prereq_list_el, top_name, inc)

\* blob = _parse_no_prereqs(None, "top_x")
NoPrereqsCall ==
    /\ cpc = "parse"
    /\ IsNone(prereq_el)
    /\ ListParsed(ParseNoPrereqs("top_x", function_name_incrementor))
    /\ UNCHANGED <<prereq_el, sel, iteration, value>>
    /\ UNCHANGED <<selVars, rngVars, moreVars>>

\* The same call once more, on the same element with the same name
ParseAgainCall ==
    /\ cpc = "parsed"
    /\ again' = ParseTop(prereq_el, "top_x", function_name_incrementor)
    /\ function_name_incrementor' = again'.inc
    /\ cpc' = "parsed2"
    /\ UNCHANGED <<prereq_el, sel, compiled, iteration, value, value2>>
    /\ UNCHANGED <<selVars, rngVars, listVars>>

\* prereq_satisfied on the first text and on the second
SatisfiedBoth ==
    /\ cpc = "parsed2"
    /\ \E order \in Orders(Names(sel)) :
        /\ value' = PrereqSatisfied("spell" :> compiled.blob, "spell", sel,
                                    order)
        /\ value2' = PrereqSatisfied("spell" :> again.blob, "spell", sel,
                                     order)
        /\ iteration' = order
    /\ cpc' = "done"
    /\ UNCHANGED <<prereq_el, sel, function_name_incrementor, compiled,
                   again>>
    /\ UNCHANGED <<selVars, rngVars, listVars>>

TwiceInit ==
    /\ \E e \in TwiceTrees, ts \in MagerySelections : ToCompile(e, ts, 0)
    /\ NoCall
    /\ NoTape
    /\ NoMore

TwiceNext ==
    ParseListCall \/ NoPrereqsCall \/ ParseAgainCall \/ SatisfiedBoth

SpecTwice == TwiceInit /\ [][TwiceNext]_vars

----------------------------------------------------------------------------
(* pick_or_improve_skills_from_list(skills, points, traits, min_cost).  An *)
(* action is one iteration of its while loop.                              *)

MaxBudget == 12

\* A progression of four more at every cost
NextSkillCostPlus4(cost) == cost + 4

\* A progression that stays where it is
NextSkillCostSame(cost) == cost

\* next_skill_cost(cost)
next_skill_cost(cost) ==
    IF cost = 0 THEN 1
    ELSE IF cost = 1 THEN 2
    ELSE IF cost = 2 THEN 4
    ELSE cost + 4

\* The variables of a selector's frame that the functions on a list of
\* traits leave as they are
frameVars == <<pool, called, fn, points, original_traits, lst, heap, lst2,
               original_lst, retried, callerLst, callerHeap, src, drawn,
               gate, firstDraws>>

\* The state at the call of function f with the list ts and p points
Frame(f, p, ts) ==
    /\ pool = <<>> /\ called = f /\ fn = f /\ points = p
    /\ original_traits = <<>> /\ lst = <<>> /\ heap = <<>> /\ lst2 = 0
    /\ original_lst = <<>> /\ retried = FALSE /\ callerLst = <<>>
    /\ callerHeap = <<>> /\ src = <<>> /\ drawn = <<>> /\ gate = <<>>
    /\ firstDraws = 0
    /\ traits = ts /\ traits0 = ts
    /\ points_left = p
    /\ pc = "while"

\* The places of traits the for loop visits before it breaks: the place of
\* the first entry named name whose next cost fits, or all of them
Improvable(name) ==
    {ii \in 1..Len(traits) :
        /\ traits[ii][1] = name
        /\ next_skill_cost(traits[ii][2]) - traits[ii][2] <= points_left}

\* One iteration of the while loop with skill_name chosen.  The for loop
\* breaks at the first entry it improves; when it ends without a break,
\* its else clause runs with trait_type as the last entry left it, and
\* with no trait_type at all when traits is empty.
ImproveWith(name) ==
    /\ pc = "while"
    /\ skills_lst # <<>> /\ points_left > 0
    /\ skill_name' = name
    /\ IF Improvable(name) # {}
       THEN LET ii == CHOOSE i \in Improvable(name) :
                          \A j \in Improvable(name) : i <= j
                cost2 == next_skill_cost(traits[ii][2])
            IN  /\ traits' = [traits EXCEPT ![ii] = <<@[1], cost2, @[3]>>]
                /\ points_left' = points_left - (cost2 - traits[ii][2])
                /\ UNCHANGED <<pc, exc>>
       ELSE IF traits = <<>>
       THEN /\ pc' = "raised"
            /\ exc' = "UnboundLocalError"
            /\ UNCHANGED <<traits, points_left>>
       ELSE /\ traits' = Append(traits,
                                <<name, min_cost, traits[Len(traits)][3]>>)
            /\ points_left' = points_left - min_cost
            /\ UNCHANGED <<pc, exc>>
    /\ UNCHANGED <<frameVars, rngVars, compVars, again, value2, skills_lst,
                   min_cost, traits0, trait_name_set, calls, traits2,
                   frames>>

\* skill_name = random.choice(skills_lst)
Improve == \E i \in 1..Len(skills_lst) : ImproveWith(skills_lst[i])

\* The while loop ends: the function returns None.
ImproveReturn ==
    /\ pc = "while"
    /\ fn = "pick_or_improve_skills_from_list"
    /\ ~(skills_lst # <<>> /\ points_left > 0)
    /\ pc' = "return"
    /\ UNCHANGED <<traits, points_left>>
    /\ UNCHANGED <<frameVars, rngVars, compVars, moreVars>>

\* The skills a caller passes, as list(skills)
SkillLists == {<<>>, <<"X">>, <<"X", "Y">>}

\* The traits a caller has when it calls
SkillTraits ==
    {<<>>, << <<"X", 0, "SK">> >>, << <<"X", 2, "SK">> >>,
     << <<"Y", 1, "SK">> >>, << <<"X", 2, "SK">>, <<"Z", 1, "AD">> >>}

MinCosts == {1, 2}

ImproveInit ==
    /\ \E p \in 0..MaxBudget, ts \in SkillTraits :
           Frame("pick_or_improve_skills_from_list", p, ts)
    /\ skills_lst \in SkillLists
    /\ min_cost \in MinCosts
    /\ skill_name = None
    /\ again = NotCompiled /\ value2 = FALSE
    /\ trait_name_set = {} /\ calls = 0 /\ traits2 = <<>> /\ exc = None
    /\ frames = 0
    /\ NoTape
    /\ NoCompile

ImproveNext == Improve \/ ImproveReturn

SpecImprove == ImproveInit /\ [][ImproveNext]_vars

----------------------------------------------------------------------------
(* add_spell(traits, trait_names), called by a loop of the caller.  An     *)
(* action is one iteration of its "while True".                            *)

MaxCalls == 3

\* An entry of two points
NewSpellTwoPoints(spell) == <<spell, 2, "SP">>

\* (spell, 1, SP)
NewSpell(spell) == <<spell, 1, "SP">>

\* list(spell_to_prereq_function.keys())
SpellKeys == DOMAIN BuiltPrereqs

\* One iteration with spell chosen: "continue" when the name is in
\* trait_names, append and return when its prerequisite is satisfied, and
\* the next iteration otherwise.
AddSpellWith(spell, order) ==
    /\ pc = "while"
    /\ fn = "add_spell"
    /\ IF spell \notin trait_name_set
          /\ PrereqSatisfied(BuiltPrereqs, spell, traits, order)
       THEN /\ traits' = Append(traits, NewSpell(spell))
            /\ trait_name_set' = trait_name_set \cup {spell}
            /\ calls' = calls + 1
            /\ pc' = "return"
       ELSE UNCHANGED <<traits, trait_name_set, calls, pc>>
    /\ UNCHANGED <<frameVars, points_left, rngVars, compVars, again, value2,
                   skills_lst, min_cost, skill_name, traits0, traits2, exc,
                   frames>>

\* spell = random.choice(...), and the order in which prereq_satisfied
\* iterates the names of traits
AddSpell ==
    \E spell \in SpellKeys, order \in Orders(Names(traits)) :
        AddSpellWith(spell, order)

\* The caller's loop calls add_spell again.
AddSpellCall ==
    /\ pc = "return"
    /\ fn = "add_spell"
    /\ calls < MaxCalls
    /\ pc' = "while"
    /\ UNCHANGED <<traits, points_left>>
    /\ UNCHANGED <<frameVars, rngVars, compVars, moreVars>>

\* The traits a caller of add_spell has chosen
SpellTraits ==
    {<<>>, << <<"Magery 3", 35, "AD">> >>,
     << <<"Magery 3", 35, "AD">>, <<"Seek Earth", 1, "SP">> >>,
     << <<"Light", 1, "SP">>, <<"Light", 1, "SP">> >>}

\* The sets a caller passes as trait_names: the names of its traits, and
\* sets with a name more or a name less
SpellTraitNames(ts) ==
    {Names(ts), Names(ts) \cup {"Aura"}, Names(ts) \ {"Seek Earth"}}

SpellInit ==
    /\ \E ts \in SpellTraits :
        /\ Frame("add_spell", 0, ts)
        /\ trait_name_set \in SpellTraitNames(ts)
    /\ calls = 0
    /\ skills_lst = <<>> /\ min_cost = 0 /\ skill_name = None
    /\ again = NotCompiled /\ value2 = FALSE
    /\ traits2 = <<>> /\ exc = None /\ frames = 0
    /\ NoTape
    /\ NoCompile

SpellNext == AddSpell \/ AddSpellCall

SpecSpell == SpellInit /\ [][SpellNext]_vars

----------------------------------------------------------------------------
(* merge_traits(traits).  A level is held in tenths, so that the int 3 is  *)
(* 30 and the float 6.5 is 65; the names of the model have at most one     *)
(* digit after the point.                                                  *)

MaxTraits == 3

\* The place of the last space of s, 0 when it has none: where the greedy
\* "(.*) " of both patterns ends, what follows having no space in it
LastSpace(s) ==
    IF \E i \in 1..Len(s) : Ch(s, i) = " "
    THEN CHOOSE i \in 1..Len(s) :
             Ch(s, i) = " " /\ \A j \in (i + 1)..Len(s) : Ch(s, j) # " "
    ELSE 0

\* What follows the last space of s
AfterSpace(s) == SubSeq(s, LastSpace(s) + 1, Len(s))

\* re.search(plus_pat, trait_name), plus_pat = "(.*) \+(\d+)$"
plus_pat(s) ==
    /\ LastSpace(s) > 0
    /\ Len(AfterSpace(s)) >= 2
    /\ Ch(AfterSpace(s), 1) = "+"
    /\ \A i \in 2..Len(AfterSpace(s)) : IsDigit(Ch(AfterSpace(s), i))

\* re.search(level_pat, trait_name), level_pat = "(.*) ([0-9.]+)$"
level_pat(s) ==
    /\ LastSpace(s) > 0
    /\ Len(AfterSpace(s)) >= 1
    /\ \A i \in 1..Len(AfterSpace(s)) :
           IsDigit(Ch(AfterSpace(s), i)) \/ Ch(AfterSpace(s), i) = "."

\* match.group(1) of both patterns
Group1(s) == SubSeq(s, 1, LastSpace(s) - 1)

\* The places of the points of str_level
Points(str_level) == {i \in 1..Len(str_level) : Ch(str_level, i) = "."}

\* float(str_level) if "." in str_level else int(str_level), in tenths;
\* float raises ValueError on two points and on a point with no digit:
\* -1 here
LevelOf(str_level) ==
    LET at == CHOOSE i \in Points(str_level) : TRUE IN
    IF Points(str_level) = {} THEN 10 * ParseInt(str_level)
    ELSE IF Cardinality(Points(str_level)) > 1 \/ Len(str_level) = 1
        THEN -1
    ELSE 10 * ParseInt(SubSeq(str_level, 1, at - 1))
         + (IF at = Len(str_level) THEN 0
            ELSE ParseInt(Ch(str_level, at + 1)))

\* d.get(k, 0)
GetOr0(d, k) == IF k \in DOMAIN d THEN d[k] ELSE 0

\* d[k] = v
Put(d, k, v) == [x \in DOMAIN d \cup {k} |-> IF x = k THEN v ELSE d[x]]

Max(a, b) == IF a >= b THEN a ELSE b

\* The first loop from its i-th trait on, with the dicts
\* bare_name_to_level, bare_name_to_cost and trait_name_to_bare_name as
\* the loop has left them.  "bare_name_to_level[bare_name] += plus_level"
\* raises KeyError when the bare name has no level yet.
RECURSIVE FirstLoop(_, _, _, _, _)
FirstLoop(ts, i, to_level, to_cost, to_bare_name) ==
    LET trait_name == ts[i][1]
        bare_name == Group1(trait_name)
        level == LevelOf(AfterSpace(trait_name))
    IN
    IF i > Len(ts)
        THEN [raised |-> None, level |-> to_level, cost |-> to_cost,
              bare |-> to_bare_name]
    ELSE IF plus_pat(trait_name)
        THEN IF bare_name \notin DOMAIN to_level
                THEN [raised |-> "KeyError"]
             ELSE FirstLoop(ts, i + 1,
                    Put(to_level, bare_name,
                        to_level[bare_name]
                        + 10 * ParseInt(Tail(AfterSpace(trait_name)))),
                    Put(to_cost, bare_name, to_cost[bare_name] + ts[i][2]),
                    Put(to_bare_name, trait_name, bare_name))
    ELSE IF level_pat(trait_name)
        THEN IF level < 0 THEN [raised |-> "ValueError"]
             ELSE FirstLoop(ts, i + 1,
                    Put(to_level, bare_name,
                        Max(GetOr0(to_level, bare_name), level)),
                    Put(to_cost, bare_name,
                        GetOr0(to_cost, bare_name) + ts[i][2]),
                    Put(to_bare_name, trait_name, bare_name))
    ELSE FirstLoop(ts, i + 1, to_level, to_cost, to_bare_name)

\* "%s %d" % (bare_name, level): %d drops the fraction of a float
MergedName(bare_name, level) == bare_name \o " " \o ToString(level \div 10)

\* The second loop from its i-th trait on: traits2
RECURSIVE SecondLoop(_, _, _, _, _)
SecondLoop(ts, i, d, bare_names_done, out) ==
    LET trait_name == ts[i][1]
        bare_name == d.bare[trait_name]
    IN
    IF i > Len(ts) THEN out
    ELSE IF trait_name \notin DOMAIN d.bare
        THEN SecondLoop(ts, i + 1, d, bare_names_done, Append(out, ts[i]))
    ELSE IF bare_name \in bare_names_done
        THEN SecondLoop(ts, i + 1, d, bare_names_done, out)
    ELSE SecondLoop(ts, i + 1, d, bare_names_done \cup {bare_name},
                    Append(out, <<MergedName(bare_name, d.level[bare_name]),
                                  d.cost[bare_name], ts[i][3]>>))

\* What merge_traits does after its first loop has ended as d says
AfterFirstLoop(ts, d) ==
    IF d.raised # None THEN [raised |-> d.raised, traits2 |-> <<>>]
    ELSE [raised |-> None, traits2 |-> SecondLoop(ts, 1, d, {}, <<>>)]

\* merge_traits(traits): the exception it raises, or the list it returns
merge_traits(ts) ==
    AfterFirstLoop(ts, FirstLoop(ts, 1, EmptyDict, EmptyDict, EmptyDict))

\* traits = merge_traits(traits) in main
MergeCall ==
    /\ pc = "while"
    /\ fn = "merge_traits"
    /\ traits2' = merge_traits(traits).traits2
    /\ exc' = merge_traits(traits).raised
    /\ pc' = IF exc' = None THEN "return" ELSE "raised"
    /\ UNCHANGED <<traits, points_left>>
    /\ UNCHANGED <<frameVars, rngVars, compVars, again, value2, skills_lst,
                   min_cost, skill_name, traits0, trait_name_set, calls,
                   frames>>

\* The traits the templates hand to merge_traits are made of
MergeEntries ==
    {<<"ST 14", 40, "PA">>, <<"ST +2", 20, "PA">>, <<"ST 15", 50, "PA">>,
     <<"Magery 3", 35, "AD">>, <<"Magery 4", 10, "AD">>,
     <<"Luck", 15, "AD">>, <<"Basic Speed 6.5", -5, "SA">>,
     <<"Basic Speed +1", 20, "SA">>}

MergeInit ==
    /\ \E n \in 0..MaxTraits : \E ts \in [1..n -> MergeEntries] :
           Frame("merge_traits", 0, ts)
    /\ skills_lst = <<>> /\ min_cost = 0 /\ skill_name = None
    /\ again = NotCompiled /\ value2 = FALSE
    /\ trait_name_set = {} /\ calls = 0 /\ traits2 = <<>> /\ exc = None
    /\ frames = 0
    /\ NoTape
    /\ NoCompile

SpecMerge == MergeInit /\ [][MergeCall]_vars

----------------------------------------------------------------------------
(* pick_from_list on an interpreter whose stack is bounded.  A retry is a  *)
(* nested call, "return pick_from_list(original_lst, points)": its frame   *)
(* is on the stack above the frames of the passes before it, and the       *)
(* interpreter raises RecursionError in place of the call when the stack   *)
(* holds as many frames as sys.getrecursionlimit() allows.  MaxFrames is   *)
(* the number of frames of pick_from_list that the limit has room for.     *)

MaxFrames == 3

\* A stack with room for every frame
StackNeverFull(n) == FALSE

\* The stack of n frames of pick_from_list has no room for one more.
StackFull(n) == n >= MaxFrames

StackInit ==
    /\ \E p \in Pools, t \in Targets : Called("pick_from_list", p, t, <<>>)
    /\ frames = 1
    /\ skills_lst = <<>> /\ min_cost = 0 /\ skill_name = None
    /\ traits0 = <<>> /\ trait_name_set = {} /\ calls = 0
    /\ again = NotCompiled /\ value2 = FALSE
    /\ traits2 = <<>> /\ exc = None
    /\ NoTape
    /\ NoCompile

\* The retry when the stack has room for its frame
StackRetry ==
    /\ ~StackFull(frames)
    /\ RetryCall
    /\ frames' = frames + 1
    /\ UNCHANGED <<again, value2, skills_lst, min_cost, skill_name, traits0,
                   trait_name_set, calls, traits2, exc>>
    /\ UNCHANGED <<rngVars, compVars>>

\* The retry when it has none: RecursionError, through every frame
StackOverflow ==
    /\ pc = "while"
    /\ ~WhileCondition
    /\ points_left # 0
    /\ StackFull(frames)
    /\ pc' = "raised"
    /\ exc' = "RecursionError"
    /\ UNCHANGED <<again, value2, skills_lst, min_cost, skill_name, traits0,
                   trait_name_set, calls, traits2, frames>>
    /\ UNCHANGED <<traits, points_left>>
    /\ UNCHANGED <<frameVars, rngVars, compVars>>

StackNext == Draw \/ Choose \/ StackRetry \/ StackOverflow \/ Return

SpecStack == StackInit /\ [][StackNext]_vars

----------------------------------------------------------------------------
(* The selectors' claims.                                                   *)

\* b is a with some of its elements left out, the others in their order.
RECURSIVE IsSubSeq(_, _)
IsSubSeq(a, b) ==
    IF a = <<>> THEN TRUE
    ELSE IF b = <<>> THEN FALSE
    ELSE IF a[1] = b[1] THEN IsSubSeq(Tail(a), Tail(b))
    ELSE IsSubSeq(a, Tail(b))

Returned == pc = "return"

\* C1: whenever pick_from_list returns, as the call or as the retry of
\* either selector, the costs of the returned traits sum to the target
\* exactly, whatever the pool, the sign of the target and the number of
\* retries before.
C1_Exactness ==
    (Returned /\ fn = "pick_from_list") => SumCost(traits) = points

\* C1's case: a return after a retry, of two traits, for a negative target.
C1_Witness ==
    /\ Returned /\ fn = "pick_from_list" /\ retried
    /\ points < 0 /\ Len(traits) = 2

\* C2 as claimed: every trait that pick_from_list_enforcing_prereqs returns
\* had its prerequisite satisfied when it was accepted, after retries too.
C2_GatedAtAcceptance ==
    (Returned /\ called = "pick_from_list_enforcing_prereqs") =>
        \A i \in 1..Len(gate) : gate[i]

\* C3: a selection call changes the caller's list by removal only.  When
\* it returns, the list holds the groups it held before less one for every
\* draw of the first pass, in their order, and each group holds the entries
\* it held before less those the first pass rejected, in their order; the
\* copy the retries start from holds the whole pool.
C3_RemovalOnly ==
    Returned =>
        /\ Len(callerLst) = Len(pool) - firstDraws
        /\ IsSubSeq(callerLst, Refs(Len(pool)))
        /\ DOMAIN callerHeap = DOMAIN pool
        /\ \A r \in DOMAIN pool : IsSubSeq(callerHeap[r], pool[r])
        /\ original_lst = pool

\* C3's case: a return after a retry, the first pass having removed a
\* group from the caller's list and an entry from a caller's group.
C3_Witness ==
    /\ Returned /\ retried
    /\ Len(callerLst) < Len(pool)
    /\ \E r \in DOMAIN pool : Len(callerHeap[r]) < Len(pool[r])

\* C3 as claimed: when the call returns, the caller's list holds the same
\* groups, each with the same entries, as before the call.
C3_PoolUntouched ==
    Returned => (callerLst = Refs(Len(pool)) /\ callerHeap = pool)

\* C4 as claimed: no two traits that pick_from_list returns have the same
\* name.
C4_NoDuplicateNames ==
    (Returned /\ called = "pick_from_list") =>
        \A i, j \in 1..Len(traits) : i # j => traits[i][1] # traits[j][1]

\* C5 as claimed: the traits that pick_from_list returns come from groups
\* that differ, and no group is drawn twice in one pass.
C5_GroupExclusivity ==
    (Returned /\ called = "pick_from_list") =>
        /\ \A i, j \in 1..Len(src) : i # j => src[i] # src[j]
        /\ \A i, j \in 1..Len(drawn) : i # j => drawn[i] # drawn[j]

\* The sum of the costs of the entries that pick takes from the groups of
\* p from group g on: pick[g] is the place of the entry taken from group g,
\* 0 when none is taken.
RECURSIVE PickedCost(_, _, _)
PickedCost(p, pick, g) ==
    IF g > Len(p) THEN 0
    ELSE (IF pick[g] = 0 THEN 0 ELSE p[g][pick[g]][2])
         + PickedCost(p, pick, g + 1)

\* Some choice of at most one entry of every group of p sums to t.
Solvable(p, t) ==
    \E pick \in [1..Len(p) -> 0..MaxEntries] :
        /\ \A g \in 1..Len(p) : pick[g] <= Len(p[g])
        /\ PickedCost(p, pick, 1) = t

\* C6 as claimed: when some choice of at most one entry per group sums to
\* the target, pick_from_list returns in the end under fair random choice,
\* whatever the signs of the costs in the pool.
C6_EventuallyReturns == Solvable(pool, points) ~> Returned

\* The claim of C6 for the pools whose costs are zero or of the sign of
\* the target: it holds for them under the same fairness.
SameSign(p, t) ==
    \A g \in 1..Len(p) : \A e \in 1..Len(p[g]) : p[g][e][2] * t >= 0

SameSignEventuallyReturns ==
    (Solvable(pool, points) /\ SameSign(pool, points)) ~> Returned

----------------------------------------------------------------------------
(* The compiler's claims.                                                   *)

\* A list node evaluated by hand: all of its children when all="yes", one
\* of them otherwise; a leaf is what its own function returns.
RECURSIVE Manual(_, _, _)
Manual(node, ts, order) ==
    IF node.tag = "prereq_list"
    THEN IF node.all = "yes"
         THEN \A i \in 1..Len(node.kids) : Manual(node.kids[i], ts, order)
         ELSE \E i \in 1..Len(node.kids) : Manual(node.kids[i], ts, order)
    ELSE Call(ParseLeaf(node, "f"), ts, Names(ts), order)

\* C7: what prereq_satisfied returns on the text compiled from a tree is
\* what the evaluation of the tree by hand gives, all="yes" as the
\* conjunction and all="no" as the disjunction of the children, leaves and
\* nested lists alike, down to the deepest trees.
C7_ManualEvaluation ==
    (cpc = "done" /\ prereq_el.tag = "prereq_list") =>
        value = Manual(prereq_el, sel, iteration)

\* C7's case: a tree of the greatest depth, a conjunction of a leaf that
\* is false and a disjunction that is true, found false.
C7_Witness ==
    /\ cpc = "done"
    /\ prereq_el \in TreesOf(MaxDepth)
    /\ prereq_el.all = "yes" /\ Len(prereq_el.kids) = 2
    /\ prereq_el.kids[1].tag = "prereq_list" /\ prereq_el.kids[1].all = "no"
    /\ Manual(prereq_el.kids[1], sel, iteration)
    /\ ~Manual(prereq_el.kids[2], sel, iteration)
    /\ ~value

\* The child tags of a leaf, each with its compare mode
ShapeOf(e) == {<<e.kids[i].tag, e.kids[i].compare>> : i \in 1..Len(e.kids)}

\* The shapes _parse_spell_prereq has a case for
SpellShapes ==
    {{<<"name", c>>} : c \in {"is", "contains", "starts with"}}
    \cup {{<<"college_count", "at_least">>}}
    \cup {{<<"college", c>>} : c \in {"contains", "is"}}
    \cup {{<<"college", c>>, <<"quantity", "at_least">>} :
             c \in {"contains", "is"}}
    \cup {{<<"name", c>>, <<"quantity", "at_least">>} :
             c \in {"starts with", "contains", "is", "is anything"}}
    \cup {{<<"name", "is">>, <<"quantity", "is">>}}
    \cup {{<<"any", c>>, <<"quantity", "at_least">>} : c \in Compares}

\* The shapes _parse_advantage_prereq has a case for, by the has attribute
AdvantageShapes(has) ==
    IF has = "no"
    THEN {{<<"name", c>>, <<"notes", "is anything">>} :
             c \in {"starts with", "is", "contains"}}
    ELSE {{<<"name", "is">>, <<"level", "at_least">>, <<"notes", c>>} :
             c \in {"is anything", "contains", "does not contain"}}
         \cup {{<<"name", "contains">>, <<"level", "at_least">>,
                <<"notes", "is anything">>}}
         \cup {{<<"name", "is">>, <<"notes", "is anything">>},
               {<<"name", "starts with">>, <<"notes", "contains">>},
               {<<"name", "contains">>, <<"notes", "is anything">>}}

\* The shapes _parse_skill_prereq has a case for
SkillShapes ==
    {{<<"name", "is">>, <<"level", "at_least">>,
      <<"specialization", "is anything">>},
     {<<"name", "is">>, <<"specialization", "is anything">>}}

\* The leaf has a shape its parser has a case for.
Recognized(e) ==
    CASE e.tag = "spell_prereq" -> ShapeOf(e) \in SpellShapes
      [] e.tag = "advantage_prereq" -> ShapeOf(e) \in AdvantageShapes(e.has)
      [] e.tag = "attribute_prereq" -> e.compare = "at_least"
      [] e.tag = "skill_prereq" -> ShapeOf(e) \in SkillShapes
      [] OTHER -> FALSE

\* C8: the parse of a leaf raises an exception exactly when the leaf has a
\* shape its parser has no case for; no such leaf compiles to a function,
\* one that is always true or always false included.
C8_UnrecognizedFails ==
    (cpc # "parse" /\ prereq_el.tag # "prereq_list") =>
        /\ Raised(compiled) <=> ~Recognized(prereq_el)
        /\ Raised(compiled) <=> cpc = "raised"

\* C8's case: a spell leaf of a name and a quantity whose compare modes
\* have no case has raised AssertionError.
C8_Witness ==
    /\ cpc = "raised"
    /\ prereq_el.tag = "spell_prereq" /\ Len(prereq_el.kids) = 2
    /\ prereq_el.kids[1].tag = "name"
    /\ ~Recognized(prereq_el)
    /\ compiled = AssertionError

\* Scenario B: ALL(name-is "Magery", level-at-least "Magery" 2)
ScenarioB == List("yes", <<NameIsMagery, MageryAtLeast2>>)

\* C9: the predicate compiled from Scenario B is satisfied neither by the
\* selection of "Magery 3" nor by the selection of "Magery 1", since neither
\* name is "Magery"; with "Magery" selected too it is satisfied with
\* "Magery 3" and not with "Magery 1".
C9_ScenarioB ==
    (cpc = "done" /\ prereq_el = ScenarioB) =>
        /\ Names(sel) = {"Magery 3"} => ~value
        /\ Names(sel) = {"Magery 1"} => ~value
        /\ Names(sel) = {"Magery", "Magery 3"} => value
        /\ Names(sel) = {"Magery", "Magery 1"} => ~value

\* C9's case: Scenario B evaluated on the selection of "Magery 3" alone.
C9_Witness ==
    /\ cpc = "done" /\ prereq_el = ScenarioB
    /\ Names(sel) = {"Magery 3"}
    /\ ~value

\* C9 as claimed: Scenario B is satisfied by the selection of "Magery 3"
\* and not by the selection of "Magery 1".
C9_AsClaimed ==
    (cpc = "done" /\ prereq_el = ScenarioB) =>
        /\ Names(sel) = {"Magery 3"} => value
        /\ Names(sel) = {"Magery 1"} => ~value

\* <spell_prereq has="yes"><name compare="is">...</name></spell_prereq>
IsNameIs(e) ==
    /\ e.tag = "spell_prereq" /\ e.has = "yes" /\ Len(e.kids) = 1
    /\ e.kids[1].tag = "name" /\ e.kids[1].compare = "is"

\* C10 as claimed: a name-is leaf is true exactly when a selected name
\* equals the text of the leaf, both normalised in case.
C10_NameIsNormalised ==
    (cpc = "done" /\ IsNameIs(prereq_el)) =>
        (value <=> \E t \in Names(sel) :
                       Title(t) = Title(prereq_el.kids[1].text))

\* A leaf that asks for a level: an advantage of a name, a level at_least
\* and notes, an attribute at_least, a skill of a name and a level at_least
IsLevelAtLeast(e) ==
    \/ /\ e.tag = "advantage_prereq" /\ e.has = "yes" /\ Len(e.kids) = 3
       /\ Is(Find(e, "name"), "is") /\ Is(Find(e, "level"), "at_least")
       /\ \E c \in {"is anything", "contains", "does not contain"} :
              Is(Find(e, "notes"), c)
    \/ e.tag = "attribute_prereq" /\ e.compare = "at_least"
    \/ /\ e.tag = "skill_prereq" /\ Len(e.kids) = 3
       /\ Is(Find(e, "name"), "is") /\ Is(Find(e, "level"), "at_least")
       /\ Is(Find(e, "specialization"), "is anything")

\* The prefix a level leaf looks for
LevelPrefix(e) ==
    IF e.tag = "attribute_prereq" THEN StrUpper(e.which) \o " "
    ELSE Title(Find(e, "name").text)

\* The threshold of a level leaf
LevelThreshold(e) ==
    IF e.tag = "attribute_prereq" THEN ParseInt(e.text)
    ELSE ParseInt(Find(e, "level").text)

\* The note filter of a level leaf lets the name t through.
PassesFilter(e, t) ==
    IF e.tag # "advantage_prereq" THEN TRUE
    ELSE IF Is(Find(e, "notes"), "contains")
        THEN Contains(t, Find(e, "notes").text)
    ELSE IF Is(Find(e, "notes"), "does not contain")
        THEN ~Contains(t, Find(e, "notes").text)
    ELSE TRUE

\* The selected names a level leaf is about
LevelMatches(e, names) ==
    {t \in names : StartsWith(t, LevelPrefix(e)) /\ PassesFilter(e, t)}

\* C11 as claimed: a level-at-least leaf is false when no selected name
\* starts with the prefix and passes the filter, and otherwise true exactly
\* when a selected name that does has a level of the threshold or more.
C11_LevelAtLeast ==
    (cpc = "done" /\ IsLevelAtLeast(prereq_el)) =>
        (value <=>
            \E t \in LevelMatches(prereq_el, Names(sel)) :
                HasDigit(t) /\ MatchLevel(t) >= LevelThreshold(prereq_el))

\* A leaf with has="no" whose only condition is a pattern on the name: a
\* spell leaf of a name, an advantage leaf of a name and any notes
IsNegatedName(e) ==
    /\ e.has = "no"
    /\ \/ e.tag = "spell_prereq" /\ Len(e.kids) = 1
          /\ e.kids[1].tag = "name"
       \/ e.tag = "advantage_prereq" /\ Len(e.kids) = 2
          /\ ~IsNone(Find(e, "name")) /\ Is(Find(e, "notes"), "is anything")
    /\ Find(e, "name").compare \in {"is", "contains", "starts with"}

\* The name t matches the pattern of the name child of e, case aside.
MatchesPattern(e, t) ==
    LET name_el == Find(e, "name") IN
    CASE name_el.compare = "is" -> Title(t) = Title(name_el.text)
      [] name_el.compare = "contains" ->
            Contains(Title(t), Title(name_el.text))
      [] name_el.compare = "starts with" ->
            StartsWith(Title(t), Title(name_el.text))

\* C12 as claimed: a leaf with has="no" is true exactly when no selected
\* name matches its pattern.
C12_NegatedExistence ==
    (cpc = "done" /\ IsNegatedName(prereq_el)) =>
        (value <=> ~ \E t \in Names(sel) : MatchesPattern(prereq_el, t))

----------------------------------------------------------------------------
(* The claims on the second compilation.                                   *)

\* C13: two compilations of one tree under one name give texts of the same
\* predicate, equal in value on every selection, but not the same text:
\* each numbers its functions from the global function_name_incrementor and
\* advances it by the number of nodes it names, so the second text differs
\* from the first whenever a function is named.
C13_SamePredicate ==
    (cpc = "done" /\ again # NotCompiled) =>
        /\ value2 = value
        /\ function_name_incrementor = again.inc
        /\ again.inc - compiled.inc = compiled.inc
        /\ compiled.inc > 0 => again.blob # compiled.blob

\* C13's case: a nested tree compiled twice and found true both times
C13_Witness ==
    /\ cpc = "done"
    /\ prereq_el \in Nest(ListsOfLeaves)
    /\ again.blob # compiled.blob
    /\ value /\ value2

\* C13 as claimed: the second compilation returns what the first returned
\* and leaves the state a later compilation reads as it was.
C13_Idempotent ==
    (cpc \in {"parsed2", "done"}) =>
        /\ again.blob = compiled.blob
        /\ function_name_incrementor = compiled.inc

----------------------------------------------------------------------------
(* The claims on pick_or_improve_skills_from_list.                         *)

Improving == fn = "pick_or_improve_skills_from_list"

\* The costs of n steps of next_skill_cost from c
RECURSIVE Tiers(_, _)
Tiers(c, n) ==
    IF n = 0 THEN <<>>
    ELSE <<next_skill_cost(c)>> \o Tiers(next_skill_cost(c), n - 1)

\* The progression as the specification words it
CostProgression(c) == CASE c = 0 -> 1 [] c = 1 -> 2 [] c = 2 -> 4
                        [] OTHER -> c + 4

\* C14: an entry that pick_or_improve_skills_from_list improves goes from
\* its cost c to next_skill_cost(c), which is 1 for 0, 2 for 1, 4 for 2 and
\* c + 4 above, and is more than c; five steps from 0 give 1, 2, 4, 8, 12.
C14_CostProgression ==
    [][Improving =>
        /\ \A ii \in 1..Len(traits) :
              traits'[ii] # traits[ii] =>
                  /\ traits'[ii][2] = CostProgression(traits[ii][2])
                  /\ traits'[ii][2] > traits[ii][2]
        /\ \A c \in 0..MaxBudget :
              /\ next_skill_cost(c) = CostProgression(c)
              /\ next_skill_cost(c) > c
        /\ Tiers(0, 5) = <<1, 2, 4, 8, 12>>]_vars

\* C14's case: an entry of cost 0 has been improved five times, to 12.
C14_Witness ==
    /\ Improving
    /\ traits0 = << <<"X", 0, "SK">> >>
    /\ traits # <<>> /\ traits[1] = <<"X", 12, "SK">>

\* The name is in traits, and the next cost of no entry of that name fits
\* the points that are left.
Unaffordable(name) ==
    /\ \E ii \in 1..Len(traits) : traits[ii][1] = name
    /\ Improvable(name) = {}

\* C15 as claimed: an iteration that picks a name that is in traits and
\* cannot be improved with the points left changes neither traits nor
\* points_left.
C15_UnaffordableUntouched ==
    [][(Improving /\ pc = "while" /\ Unaffordable(skill_name'))
        => (traits' = traits /\ points_left' = points_left)]_vars

\* C16 as claimed: the call with skills {"X"}, 3 points, no traits and
\* min_cost 1 ends without an exception, with ("X", 2) alone in traits and
\* no points left.
C16_ScenarioC ==
    (/\ Improving /\ skills_lst = <<"X">> /\ points = 3 /\ traits0 = <<>>
     /\ min_cost = 1 /\ pc # "while")
        => /\ pc = "return" /\ exc = None
           /\ points_left = 0
           /\ Len(traits) = 1
           /\ traits[1][1] = "X" /\ traits[1][2] = 2

----------------------------------------------------------------------------
(* The claims on add_spell.                                                *)

\* trait_names is the set of the names of traits, each name once in traits
Consistent(ts, names) ==
    /\ names = Names(ts)
    /\ \A i, j \in 1..Len(ts) : ts[i][1] = ts[j][1] => i = j

\* C17: a call of add_spell that returns has appended one entry to traits,
\* of weight 1, of a name that was not in trait_names, whose prerequisite
\* the traits satisfied, and has added the name to trait_names; when
\* trait_names was the set of the names of traits, each once in traits, it
\* still is, and traits has grown by one for every call that returned.
C17_AddSpell ==
    /\ [](fn = "add_spell" => Len(traits) = Len(traits0) + calls)
    /\ [][(fn = "add_spell" /\ pc = "while" /\ pc' = "return") =>
            /\ Len(traits') = Len(traits) + 1
            /\ SubSeq(traits', 1, Len(traits)) = traits
            /\ LET new == traits'[Len(traits')] IN
                /\ new[2] = 1
                /\ new[1] \notin trait_name_set
                /\ trait_name_set' = trait_name_set \cup {new[1]}
                /\ \E order \in Orders(Names(traits)) :
                       PrereqSatisfied(BuiltPrereqs, new[1], traits, order)
            /\ Consistent(traits, trait_name_set) =>
                   /\ Consistent(traits', trait_name_set')
                   /\ Cardinality(trait_name_set') = Len(traits')]_vars

\* C17's case: three calls have returned, the last with a spell whose
\* prerequisite an earlier call's spell satisfied.
C17_Witness ==
    /\ fn = "add_spell" /\ pc = "return" /\ calls = MaxCalls
    /\ traits0 = << <<"Magery 3", 35, "AD">> >>
    /\ Consistent(traits, trait_name_set)
    /\ traits[Len(traits)][1] = "Continual Light"

----------------------------------------------------------------------------
(* The claims on merge_traits.                                             *)

Merged == fn = "merge_traits" /\ pc # "while"

\* C18 as claimed: merge_traits returns, whatever the list, a list of the
\* same summed weight.
C18_MergeConserves ==
    Merged => (pc = "return" /\ SumCost(traits2) = SumCost(traits))

\* The list ts in the order o of its places
Permuted(ts, o) == [k \in 1..Len(ts) |-> ts[o[k]]]

\* How often the name and weight of entry e occur in the list out
Occurrences(out, e) ==
    Cardinality({i \in 1..Len(out) : out[i][1] = e[1] /\ out[i][2] = e[2]})

\* Two results hold the same names with the same weights, as often.
SameEntries(a, b) ==
    /\ Len(a) = Len(b)
    /\ \A i \in 1..Len(a) : Occurrences(a, a[i]) = Occurrences(b, a[i])

\* C19 as claimed: on every permutation of the list merge_traits succeeds
\* if and only if it did on the list, with the same merged entries.
C19_OrderIndependent ==
    Merged =>
        \A o \in Orders(1..Len(traits)) :
            /\ merge_traits(Permuted(traits, o)).raised = exc
            /\ SameEntries(merge_traits(Permuted(traits, o)).traits2,
                           traits2)

\* The name is a bare name followed by a level: "Magery 3", not "ST +2".
Levelled(name) == level_pat(name) /\ ~plus_pat(name)

\* The places of the entries of ts named bare_name and a level
LevelledAt(ts, bare_name) ==
    {i \in 1..Len(ts) : Levelled(ts[i][1]) /\ Group1(ts[i][1]) = bare_name}

\* The weights of the entries of ts at the places of S, summed
RECURSIVE SumAt(_, _)
SumAt(ts, S) ==
    IF S = {} THEN 0
    ELSE LET i == CHOOSE x \in S : TRUE
         IN  ts[i][2] + SumAt(ts, S \ {i})

\* C20 as claimed: the entries named one bare name and a level are folded
\* into one entry of the result, named the bare name and the greatest of
\* their levels, with the sum of their weights; no two entries of the
\* result have one bare name.  (Lists with no "+N" names.)
C20_FoldsLevels ==
    (Merged /\ \A i \in 1..Len(traits) : ~plus_pat(traits[i][1])) =>
        /\ pc = "return"
        /\ \A i \in 1..Len(traits) :
              Levelled(traits[i][1]) =>
                LET bare_name == Group1(traits[i][1])
                    ins == LevelledAt(traits, bare_name)
                    outs == LevelledAt(traits2, bare_name)
                IN  /\ Cardinality(outs) = 1
                    /\ \A k \in outs :
                        /\ traits2[k][2] = SumAt(traits, ins)
                        /\ \A j \in ins :
                               LevelOf(AfterSpace(traits2[k][1]))
                                   >= LevelOf(AfterSpace(traits[j][1]))
                        /\ \E j \in ins :
                               LevelOf(AfterSpace(traits2[k][1]))
                                   = LevelOf(AfterSpace(traits[j][1]))

\* The places of the entries of ts named bare_name and an increment "+N"
PlusAt(ts, bare_name) ==
    {i \in 1..Len(ts) : plus_pat(ts[i][1]) /\ Group1(ts[i][1]) = bare_name}

\* A level held in tenths as it is written: 160 is "16", 75 is "7.5".
LevelText(level) ==
    IF level % 10 = 0 THEN ToString(level \div 10)
    ELSE ToString(level \div 10) \o "." \o ToString(level % 10)

\* C21 as claimed: when the list holds one entry "<name> L" and, after it,
\* one entry "<name> +N", and no other entry of that bare name,
\* a merge_traits that returns returns one entry of that bare name:
\* "<name> L+N", its weight the sum of the two weights.
C21_FoldsIncrement ==
    (fn = "merge_traits" /\ pc = "return") =>
        \A i, j \in 1..Len(traits) :
            LET bare_name == Group1(traits[i][1]) IN
            (/\ i < j
             /\ LevelledAt(traits, bare_name) = {i}
             /\ PlusAt(traits, bare_name) = {j}
             /\ LevelOf(AfterSpace(traits[i][1])) >= 0) =>
                /\ Cardinality({k \in 1..Len(traits2) :
                       StartsWith(traits2[k][1], bare_name \o " ")}) = 1
                /\ \E k \in 1..Len(traits2) :
                    /\ traits2[k][1] = bare_name \o " " \o LevelText(
                           LevelOf(AfterSpace(traits[i][1]))
                           + 10 * ParseInt(Tail(AfterSpace(traits[j][1]))))
                    /\ traits2[k][2] = traits[i][2] + traits[j][2]

----------------------------------------------------------------------------
(* Further claims on the selectors.                                        *)

\* The entries of the groups that the caller's list still holds
CallerEntries ==
    UNION {{callerHeap[callerLst[i]][k] :
                k \in 1..Len(callerHeap[callerLst[i]])} :
           i \in 1..Len(callerLst)}

\* C22 as claimed: when pick_from_list returns, from its first pass or
\* from a retry, no group that the caller's list still holds has an entry
\* that is in the returned selection.
C22_ChosenRemoved ==
    (Returned /\ called = "pick_from_list") =>
        \A i \in 1..Len(traits) : traits[i] \notin CallerEntries

\* A pass has ended with points_left != 0: the loop has left the list
\* empty.
PassFailed == pc = "while" /\ lst = <<>> /\ points_left # 0

\* C23: the step that follows a pass that ended with points_left != 0
\* starts a pass with no trait selected, with points_left the target of
\* the call, and with a list whose groups and entries are those of the
\* pool as the caller passed it, before any removal.
C23_RetryFromOriginal ==
    [][PassFailed =>
        /\ traits' = <<>>
        /\ points_left' = points
        /\ DeepCopy(lst', heap') = pool
        /\ pc' = "while"]_vars

\* C23's case: a pass on a pool of two groups has just started after a
\* pass that had removed an entry from a group and emptied the caller's
\* list.
C23_Witness ==
    /\ retried /\ pc = "while" /\ drawn = <<>> /\ traits = <<>>
    /\ points_left = points
    /\ callerLst = <<>> /\ callerHeap # pool
    /\ Len(pool) = 2 /\ DeepCopy(lst, heap) = pool

\* A step accepts an entry: the selection grows by it.
Accepts == Len(traits') = Len(traits) + 1

\* C24: an accepted entry has abs(cost) <= abs(points_left) and takes its
\* cost from points_left.  The magnitude of points_left decreases when the
\* cost is not zero and has the sign of points_left; it stays when the cost
\* is zero, and grows by abs(cost) when the cost has the other sign.
C24_AcceptedEntry ==
    [][Accepts =>
        LET cost == traits'[Len(traits')][2] IN
        /\ Abs(cost) <= Abs(points_left)
        /\ points_left' = points_left - cost
        /\ cost * points_left > 0 => Abs(points_left') < Abs(points_left)
        /\ cost = 0 => Abs(points_left') = Abs(points_left)
        /\ cost * points_left < 0 =>
               Abs(points_left') = Abs(points_left) + Abs(cost)]_vars

\* C24's case: pick_from_list has accepted an entry of zero cost and an
\* entry whose sign is not the target's, and more points are left than the
\* target.
C24_Witness ==
    /\ called = "pick_from_list"
    /\ \E i \in 1..Len(traits) : traits[i][2] = 0
    /\ \E i \in 1..Len(traits) : traits[i][2] * points < 0
    /\ Abs(points_left) > Abs(points)

\* C24 as claimed: every accepted entry makes the magnitude of points_left
\* smaller, whatever the pool.
C24_StrictDecrease ==
    [][Accepts => Abs(points_left') < Abs(points_left)]_vars

\* C25: a pass that ends with points_left != 0 is followed by another
\* pass, a frame higher on the stack, whenever the stack has room for the
\* frame: the code has no cap of its own.  When the stack is full the call
\* ends with RecursionError.  A call on a pool of which no choice of
\* entries sums to the target never returns.
C25_RetryUntilStackFull ==
    /\ [](~Solvable(pool, points) => ~Returned)
    /\ [][PassFailed =>
            IF frames < MaxFrames
            THEN /\ traits' = <<>> /\ points_left' = points
                 /\ pc' = "while" /\ exc' = None
                 /\ frames' = frames + 1
            ELSE pc' = "raised" /\ exc' = "RecursionError"]_vars

\* C25's case: a call on a pool of which no choice sums to the target has
\* retried until the stack was full, and has ended with RecursionError.
C25_Witness ==
    /\ ~Solvable(pool, points) /\ pool # <<>>
    /\ frames = MaxFrames
    /\ pc = "raised" /\ exc = "RecursionError"

\* C25 as claimed: a call on a pool of which no choice sums to the target
\* neither returns nor ends with an error.
C25_NeverReports ==
    ~Solvable(pool, points) => (pc # "return" /\ pc # "raised")

\* C26: with a target of zero pick_from_list draws no group: the loop
\* condition is false at entry.  The call returns the empty selection at
\* its first step, with no retry, and leaves the caller's list as it was.
C26_NoDrawAtZero ==
    /\ []((called = "pick_from_list" /\ points = 0) =>
            /\ traits = <<>> /\ drawn = <<>> /\ firstDraws = 0
            /\ ~retried
            /\ callerLst = Refs(Len(pool)) /\ callerHeap = pool)
    /\ [][(called = "pick_from_list" /\ points = 0) =>
            pc' = "return"]_vars

\* C26's case: pick_from_list has returned from a call with a target of
\* zero on a pool of two groups, one of them with an entry of zero cost.
C26_Witness ==
    /\ Returned /\ called = "pick_from_list" /\ points = 0
    /\ Len(pool) = 2
    /\ \E g \in 1..Len(pool) : \E k \in 1..Len(pool[g]) : pool[g][k][2] = 0
    /\ traits = <<>> /\ Len(callerLst) = 2

\* C26 as claimed: with a target of zero and a pool that is not empty,
\* pick_from_list draws groups from the pool, accepts only entries of zero
\* cost, and returns a selection whose costs sum to zero.
C26_DrawsAtZero ==
    (Returned /\ called = "pick_from_list" /\ points = 0 /\ pool # <<>>) =>
        /\ firstDraws > 0
        /\ \A i \in 1..Len(traits) : traits[i][2] = 0
        /\ SumCost(traits) = 0

\* Every cost of pool p is not zero and has the sign of target t.
StrictlySameSign(p, t) ==
    \A g \in 1..Len(p) : \A e \in 1..Len(p[g]) : p[g][e][2] * t > 0

\* C30: when every cost of the pool is not zero and has the sign of the
\* target, points_left is at every step of pick_from_list zero or of the
\* sign of the target, and its magnitude is at most the target's.
C30_NoOvershoot ==
    (called = "pick_from_list" /\ StrictlySameSign(pool, points)) =>
        /\ points_left * points >= 0
        /\ Abs(points_left) <= Abs(points)

\* C30's case: a retry on a pool of two negative costs for a negative
\* target has accepted both and has a point left to spend.
C30_Witness ==
    /\ called = "pick_from_list" /\ StrictlySameSign(pool, points)
    /\ points = -3 /\ retried
    /\ Len(traits) = 2 /\ points_left = -1

----------------------------------------------------------------------------
(* Further claims on pick_or_improve_skills_from_list.                     *)

\* No name of skills_lst can be paid for with the points that are left:
\* the next cost of an entry of that name, or min_cost when traits has no
\* entry of that name.
NoneAffordable ==
    \A i \in 1..Len(skills_lst) :
        \/ Unaffordable(skills_lst[i])
        \/ /\ \A ii \in 1..Len(traits) : traits[ii][1] # skills_lst[i]
           /\ min_cost > points_left

C29_NeverOverspends ==
    (Improving /\ traits0 # <<>>) =>
        /\ points_left >= 0
        /\ SumCost(traits) - SumCost(traits0) <= points

----------------------------------------------------------------------------
(* Further claims on the compiler.                                         *)

\* C28 as claimed: the value of a compiled leaf on a selection is the same
\* in whatever order the set trait_names is iterated.
C28_LeafIsPure ==
    cpc = "done" =>
        \A order \in Orders(Names(sel)) :
            Call(compiled, sel, Names(sel), order) = value

====
